---------------------------- MODULE Spec2Model ----------------------------
(***************************************************************************)
(* A model of the idle-triggered activity scheduler of "mm" (telek):       *)
(*   - the Instance Guard of src/src/mm/singleton.py, as processes that    *)
(*     interleave at the granularity of one file-system call;              *)
(*   - the Activity Scheduler of src/src/mm/mouse_controller.py, driven by *)
(*     the single-threaded event loop that main.py starts.                 *)
(* The two parts have separate specifications (SpecGuard, SpecGuardSeq for *)
(* the guard and Spec for the scheduler); each leaves the other part's     *)
(* variables unchanged.  SpecLive adds the fairness of the event loop,     *)
(* SpecConfig follows the configuration operations and SpecLinear the      *)
(* repeated moves of the linear pattern.                                   *)
(***************************************************************************)
EXTENDS Integers, Sequences, FiniteSets, TLC

(***************************************************************************)
(* Bounds                                                                  *)
(***************************************************************************)
\* Number of processes that run main() on the host.  Process p has pid p;
\* pids are not reused within a behaviour.
NProc == 3

Proc == 1..NProc

\* An inode of the lock file is named after the process whose open(...,'w')
\* created it (a process creates at most one).  0 stands for "none".
Inode == Proc

(***************************************************************************)
(* State of the Instance Guard                                             *)
(***************************************************************************)
VARIABLES
    pc,         \* pc[p]: position of process p in main() / the guard's code
    fn,         \* fn[p]: which reader runs: "is_running" or "get_running_pid"
    lock_path,  \* the inode the lock path names, 0 when the path does not exist
    content,    \* content[i]: pid written in inode i, 0 when the file is empty
    flock,      \* flock[i]: pid of the holder of the exclusive flock on i, or 0
    lock_file,  \* lock_file[p]: self.lock_file, the inode p has open for writing
    rfd,        \* rfd[p]: the file p has open for reading (the with-block's f)
    pid,        \* pid[p]: the local variable pid of the reader
    result,     \* result[p]: what ensure_single_instance() returned to p
    live_at_call, \* live_at_call[p]: a live holder existed when p's call began
    via_stale,  \* via_stale[p]: p's call removed a dead holder's record
    scheduler,  \* scheduler[p]: main() of p has constructed its MouseController
    exit_status \* exit_status[p]: what main() of p returned, NoStatus before

guard_vars == <<pc, fn, lock_path, content, flock, lock_file, rfd, pid,
                result, live_at_call, via_stale, scheduler, exit_status>>

\* main() has not returned.
NoStatus == 0 - 1

(***************************************************************************)
(* Bounds of the scheduler model.  Times are whole seconds; the clock      *)
(* starts at Epoch (time.time() at construction, far above any interval)   *)
(* and is followed for Horizon seconds.                                    *)
(***************************************************************************)
Epoch == 3
Horizon == 3
MaxTime == Epoch + Horizon
\* Largest HID idle reading and idle_threshold (seconds), and largest
\* move_interval and check_interval (seconds), that the environment and the
\* configuration supply.
MaxIdle == 2
MaxInterval == 2
\* interval = check_interval * 1000: QTimer intervals are milliseconds.
MsPerSecond == 1000
\* Width and height of the screen (pyautogui.size()) and largest
\* move_distance, pixels; largest scroll_amount, clicks.
ScreenWidth == 24
ScreenHeight == 1
MaxDistance == 5
MaxScroll == 2
\* Largest number of '+'-separated parts of a key token.
MaxComponents == 4
\* Largest number of macros the registry is followed with.
MaxMacros == 2
\* self._movement_angle += 0.2, in milliradians.
AngleStep == 200
\* Angles are whole milliradians: angle >= 2 * math.pi (6283.18... mrad)
\* holds exactly from 6284 on.
TwoPi == 6284
\* if new_x <= 10 or new_x >= self.screen_width - 10:
EdgeMargin == 10
\* hasattr(self, '_linear_direction') is false: the attribute is not set yet.
NoDirection == 0

\* A configuration value that is not a number (config.json holds any JSON
\* value; comparing it with a float raises TypeError).
NotANumber == 0 - 1
\* The idle time of a handler that did not sample the sensor.
NotSampled == 0 - 1

(***************************************************************************)
(* State of the Activity Scheduler (MouseController) and its collaborators *)
(***************************************************************************)
VARIABLES
    now,                \* time.time()
    is_enabled,         \* MouseController._is_enabled
    last_move_time,     \* MouseController._last_move_time
    last_activity_time, \* IdleDetector._last_activity_time (fallback baseline)
    timer_active,       \* check_timer.isActive()
    timer_interval,     \* check_timer.interval(), milliseconds
    timer_left,         \* seconds until the timer's next timeout (0: expired)
    late,               \* a timeout was already due when the timer was stopped
    config,             \* ConfigManager._config (the numbers the tick reads)
    tick_pc,            \* where _check_idle_and_act stands: idle / act / update
    force_pc,           \* where force_activity stands: idle / update
    current_time,       \* local of _check_idle_and_act (line 98)
    movement_angle,     \* MouseController._movement_angle, in milliradians
    linear_direction,   \* MouseController._linear_direction (NoDirection: not set)
    h,                  \* what the handler dispatched last saw and did
    events,             \* signals emitted and inputs injected by that handler
    macros,             \* KeyboardMacroManager._macros
    enabled,            \* KeyboardMacroManager._enabled
    call                \* the last direct call of a component and its result

motion_vars == <<movement_angle, linear_direction>>

sched_vars == <<now, is_enabled, last_move_time, last_activity_time,
                timer_active, timer_interval, timer_left, late, config,
                tick_pc, force_pc, current_time, motion_vars, h, events>>

registry_vars == <<macros, enabled>>

vars == <<guard_vars, sched_vars, registry_vars, call>>

\* A process exists (os.kill(pid, 0) succeeds) from its start to its end.
Alive(p) == pc[p] \notin {"new", "exited", "dead"}

\* p is between two calls of the guard: not started, in the event loop, or gone.
Quiescent(p) == pc[p] \in {"new", "running", "exited", "dead"}

\* p's ensure_single_instance() returned True and p has not begun release().
Holds(p) == pc[p] = "running"

GuardInit ==
    /\ pc = [p \in Proc |-> "new"]
    /\ fn = [p \in Proc |-> "is_running"]
    /\ lock_path = 0
    /\ content = [i \in Inode |-> 0]
    /\ flock = [i \in Inode |-> 0]
    /\ lock_file = [p \in Proc |-> 0]
    /\ rfd = [p \in Proc |-> 0]
    /\ pid = [p \in Proc |-> 0]
    /\ result = [p \in Proc |-> "none"]
    /\ live_at_call = [p \in Proc |-> FALSE]
    /\ via_stale = [p \in Proc |-> FALSE]
    /\ scheduler = [p \in Proc |-> FALSE]
    /\ exit_status = [p \in Proc |-> NoStatus]

(***************************************************************************)
(* main(): what follows the return of ensure_single_instance()             *)
(***************************************************************************)
\* if not singleton_app.ensure_single_instance(): ... return 1
refused_mut(r) == FALSE
refused(r) == r = "false"

\* ensure_single_instance() returns r to main().  Refused, main() returns 1
\* (sys.exit(main()) makes it the exit status).  Otherwise main() builds the
\* QApplication, ConfigManager and MouseController and enters app.exec().
main_continue(p, r) ==
    /\ result' = [result EXCEPT ![p] = r]
    /\ IF refused(r)
       THEN /\ pc' = [pc EXCEPT ![p] = "exited"]
            /\ exit_status' = [exit_status EXCEPT ![p] = 1]
            /\ scheduler' = scheduler
       ELSE /\ pc' = [pc EXCEPT ![p] = "running"]
            /\ scheduler' = [scheduler EXCEPT ![p] = TRUE]
            /\ exit_status' = exit_status

(***************************************************************************)
(* SingletonLock.is_running / get_running_pid, one file-system call a step *)
(***************************************************************************)
\* The reader returns `val` (is_running: a bool; get_running_pid: pid or None,
\* used only for the text of the notice).  ensure_single_instance continues:
\* is_running() True -> get_running_pid(), notice, return False;
\* is_running() False -> acquire().
reader_return(p, val) ==
    /\ rfd' = [rfd EXCEPT ![p] = 0]
    /\ IF fn[p] = "is_running"
       THEN IF val
            THEN /\ fn' = [fn EXCEPT ![p] = "get_running_pid"]
                 /\ pc' = [pc EXCEPT ![p] = "exists"]
                 /\ UNCHANGED <<result, scheduler, exit_status>>
            ELSE /\ fn' = fn
                 /\ pc' = [pc EXCEPT ![p] = "acquire_open"]
                 /\ UNCHANGED <<result, scheduler, exit_status>>
       ELSE /\ fn' = fn
            /\ main_continue(p, "false")

\* main() calls ensure_single_instance(), whose first call is
\* lock_path.exists() in is_running().
ensure_single_instance(p) ==
    /\ UNCHANGED <<sched_vars, registry_vars, call>>
    /\ pc[p] = "new"
    /\ live_at_call' = [live_at_call EXCEPT ![p] = \E q \in Proc \ {p} : Holds(q)]
    /\ IF lock_path = 0
       THEN reader_return(p, FALSE)
       ELSE /\ pc' = [pc EXCEPT ![p] = "open"]
            /\ UNCHANGED <<fn, rfd, result, scheduler, exit_status>>
    /\ UNCHANGED <<lock_path, content, flock, lock_file, pid, via_stale>>

\* get_running_pid(): if not self.lock_path.exists(): return None
reader_exists(p) ==
    /\ UNCHANGED <<sched_vars, registry_vars, call>>
    /\ pc[p] = "exists"
    /\ IF lock_path = 0
       THEN reader_return(p, FALSE)
       ELSE /\ pc' = [pc EXCEPT ![p] = "open"]
            /\ UNCHANGED <<fn, rfd, result, scheduler, exit_status>>
    /\ UNCHANGED <<lock_path, content, flock, lock_file, pid, live_at_call, via_stale>>

\* with open(self.lock_path, 'r') as f: a missing file raises, caught below.
reader_open(p) ==
    /\ UNCHANGED <<sched_vars, registry_vars, call>>
    /\ pc[p] = "open"
    /\ IF lock_path = 0
       THEN reader_return(p, FALSE)
       ELSE /\ rfd' = [rfd EXCEPT ![p] = lock_path]
            /\ pc' = [pc EXCEPT ![p] = "read"]
            /\ UNCHANGED <<fn, result, scheduler, exit_status>>
    /\ UNCHANGED <<lock_path, content, flock, lock_file, pid, live_at_call, via_stale>>

\* pid_str = f.read().strip(); an empty record returns False / None.
reader_read(p) ==
    /\ UNCHANGED <<sched_vars, registry_vars, call>>
    /\ pc[p] = "read"
    /\ IF content[rfd[p]] = 0
       THEN /\ reader_return(p, FALSE)
            /\ pid' = pid
       ELSE /\ pid' = [pid EXCEPT ![p] = content[rfd[p]]]
            /\ pc' = [pc EXCEPT ![p] = "probe"]
            /\ UNCHANGED <<fn, rfd, result, scheduler, exit_status>>
    /\ UNCHANGED <<lock_path, content, flock, lock_file, live_at_call, via_stale>>

\* os.kill(pid, 0): the liveness probe of the recorded process.
probe_mut(q) == TRUE
probe(q) == Alive(q)

\* try: os.kill(pid, 0); return True / except OSError: (stale) ...
reader_probe(p) ==
    /\ UNCHANGED <<sched_vars, registry_vars, call>>
    /\ pc[p] = "probe"
    /\ IF probe(pid[p])
       THEN reader_return(p, TRUE)
       ELSE /\ pc' = [pc EXCEPT ![p] = "unlink"]
            /\ UNCHANGED <<fn, rfd, result, scheduler, exit_status>>
    /\ UNCHANGED <<lock_path, content, flock, lock_file, pid, live_at_call, via_stale>>

\* self.lock_path.unlink(): removes whatever file the path names now; when
\* the path is gone the error is caught.  Either way the reader returns False.
reader_unlink(p) ==
    /\ UNCHANGED <<sched_vars, registry_vars, call>>
    /\ pc[p] = "unlink"
    /\ lock_path' = 0
    /\ via_stale' = [via_stale EXCEPT ![p] = TRUE]
    /\ reader_return(p, FALSE)
    /\ UNCHANGED <<content, flock, lock_file, pid, live_at_call>>

(***************************************************************************)
(* SingletonLock.acquire                                                   *)
(***************************************************************************)
\* self.lock_file = open(self.lock_path, 'w'): creates the file when the
\* path is free, and truncates the existing file otherwise.
acquire_open(p) ==
    /\ UNCHANGED <<sched_vars, registry_vars, call>>
    /\ pc[p] = "acquire_open"
    /\ LET i == IF lock_path = 0 THEN p ELSE lock_path
       IN /\ lock_path' = i
          /\ content' = [content EXCEPT ![i] = 0]
          /\ lock_file' = [lock_file EXCEPT ![p] = i]
    /\ pc' = [pc EXCEPT ![p] = "acquire_flock"]
    /\ UNCHANGED <<fn, flock, rfd, pid, result, live_at_call, via_stale, scheduler, exit_status>>

\* fcntl.flock(fd, LOCK_EX | LOCK_NB): taken when no one holds the lock on
\* this inode; otherwise it raises, the file is closed and acquire() returns
\* False, so ensure_single_instance() shows the notice and returns False.
acquire_flock(p) ==
    /\ UNCHANGED <<sched_vars, registry_vars, call>>
    /\ pc[p] = "acquire_flock"
    /\ IF flock[lock_file[p]] = 0
       THEN /\ flock' = [flock EXCEPT ![lock_file[p]] = p]
            /\ pc' = [pc EXCEPT ![p] = "acquire_write"]
            /\ UNCHANGED <<lock_file, result, scheduler, exit_status>>
       ELSE /\ lock_file' = [lock_file EXCEPT ![p] = 0]
            /\ main_continue(p, "false")
            /\ flock' = flock
    /\ UNCHANGED <<fn, lock_path, content, rfd, pid, live_at_call, via_stale>>

\* self.lock_file.write(str(os.getpid())); flush(); return True
acquire_write(p) ==
    /\ UNCHANGED <<sched_vars, registry_vars, call>>
    /\ pc[p] = "acquire_write"
    /\ content' = [content EXCEPT ![lock_file[p]] = p]
    /\ main_continue(p, "true")
    /\ UNCHANGED <<fn, lock_path, flock, lock_file, rfd, pid, live_at_call, via_stale>>

(***************************************************************************)
(* SingletonLock.release, called when the event loop of main() ends        *)
(***************************************************************************)
\* fcntl.flock(fd, LOCK_UN)
release_unlock(p) ==
    /\ UNCHANGED <<sched_vars, registry_vars, call>>
    /\ pc[p] = "running"
    /\ lock_file[p] # 0
    /\ flock' = [flock EXCEPT ![lock_file[p]] = 0]
    /\ pc' = [pc EXCEPT ![p] = "release_close"]
    /\ UNCHANGED <<fn, lock_path, content, lock_file, rfd, pid, result,
                   live_at_call, via_stale, scheduler, exit_status>>

\* self.lock_file.close(); self.lock_file = None
release_close(p) ==
    /\ UNCHANGED <<sched_vars, registry_vars, call>>
    /\ pc[p] = "release_close"
    /\ lock_file' = [lock_file EXCEPT ![p] = 0]
    /\ pc' = [pc EXCEPT ![p] = "release_unlink"]
    /\ UNCHANGED <<fn, lock_path, content, flock, rfd, pid, result,
                   live_at_call, via_stale, scheduler, exit_status>>

\* if self.lock_path.exists(): self.lock_path.unlink(); then main() returns
\* the result of app.exec(), 0 after QApplication.quit().
release_unlink(p) ==
    /\ UNCHANGED <<sched_vars, registry_vars, call>>
    /\ pc[p] = "release_unlink"
    /\ lock_path' = 0
    /\ pc' = [pc EXCEPT ![p] = "exited"]
    /\ exit_status' = [exit_status EXCEPT ![p] = 0]
    /\ UNCHANGED <<fn, content, flock, lock_file, rfd, pid, result,
                   live_at_call, via_stale, scheduler>>

\* if self.lock_file: the whole body of release() is under this test.
release_guard_mut(p) == TRUE
release_guard(p) == lock_file[p] # 0

\* release() called by a process that is not in its event loop: before its
\* ensure_single_instance(), after a refused start, or after its own
\* release().  With self.lock_file None the test fails and nothing is done.
\* Past the test, fileno() of None raises AttributeError, which the except
\* clause (IOError, OSError) does not catch; an open file is unlocked and
\* the call goes on to close it and to unlink the path.
release_idle(p) ==
    /\ UNCHANGED <<sched_vars, registry_vars>>
    /\ pc[p] \in {"new", "exited"}
    /\ IF ~release_guard(p)
       THEN /\ call' = [fn |-> "release", p |-> p, raised |-> "none"]
            /\ UNCHANGED <<pc, flock>>
       ELSE IF lock_file[p] = 0
       THEN /\ call' = [fn |-> "release", p |-> p, raised |-> "AttributeError"]
            /\ UNCHANGED <<pc, flock>>
       ELSE /\ call' = [fn |-> "release", p |-> p, raised |-> "none"]
            /\ flock' = [flock EXCEPT ![lock_file[p]] = IF @ = p THEN 0 ELSE @]
            /\ pc' = [pc EXCEPT ![p] = "release_close"]
    /\ UNCHANGED <<fn, lock_path, content, lock_file, rfd, pid, result,
                   live_at_call, via_stale, scheduler, exit_status>>

\* The process dies at any point; the OS closes its files and drops its flock.
crash(p) ==
    /\ UNCHANGED <<sched_vars, registry_vars, call>>
    /\ Alive(p)
    /\ pc' = [pc EXCEPT ![p] = "dead"]
    /\ flock' = [i \in Inode |-> IF flock[i] = p THEN 0 ELSE flock[i]]
    /\ lock_file' = [lock_file EXCEPT ![p] = 0]
    /\ rfd' = [rfd EXCEPT ![p] = 0]
    /\ UNCHANGED <<fn, lock_path, content, pid, result, live_at_call, via_stale, scheduler, exit_status>>


(***************************************************************************)
(* Idle Sensor: IdleDetector.get_idle_time                                 *)
(***************************************************************************)
\* Every exception class the model raises is a subclass of Exception.
ExceptionClasses == {"OSError", "TypeError", "ValueError", "IndexError",
                     "TimeoutExpired", "CalledProcessError", "PyAutoGUIException"}

\* What the ioreg probe does: prints a HIDIdleTime line that parses
\* ("value"), exits non-zero, prints no HIDIdleTime line, or raises.
Primary == {"value", "nonzero", "noline", "TimeoutExpired", "ValueError",
            "IndexError", "OSError"}
\* What the system_profiler probe of the except branch does.
Secondary == {"done", "TimeoutExpired", "OSError"}

\* except (subprocess.TimeoutExpired, subprocess.CalledProcessError,
\*         ValueError, IndexError):
sensor_catches(exc) ==
    exc \in {"TimeoutExpired", "CalledProcessError", "ValueError", "IndexError"}

\* except (subprocess.TimeoutExpired, subprocess.CalledProcessError): pass
secondary_catches(exc) == exc \in {"TimeoutExpired", "CalledProcessError"}

\* return time.time() - self._last_activity_time
fallback_idle == now - last_activity_time

\* get_idle_time(): [exc |-> the exception it raises or "none", value |-> ...]
get_idle_time(primary, secondary, hid) ==
    IF primary = "value" THEN [exc |-> "none", value |-> hid]
    ELSE IF primary \in {"nonzero", "noline"}
    THEN [exc |-> "none", value |-> fallback_idle]
    ELSE IF ~sensor_catches(primary)
    THEN [exc |-> primary, value |-> NotSampled]
    ELSE IF secondary = "done" \/ secondary_catches(secondary)
    THEN [exc |-> "none", value |-> fallback_idle]
    ELSE [exc |-> secondary, value |-> NotSampled]

\* Everything a call of get_idle_time() can do in the current state.
SensorResults ==
    {get_idle_time(primary, secondary, hid) :
        primary \in Primary, secondary \in Secondary, hid \in 0..MaxIdle}

(***************************************************************************)
(* Activity sequence: MouseController._perform_activity                    *)
(***************************************************************************)
Outcome == {"ok", "raise"}
MacroOutcome == {"ok", "raise", "none"}

Step(ev, raised, exc) == [ev |-> ev, raised |-> raised, exc |-> exc]

\* _move_mouse(): pyautogui.moveTo, then activity_performed.emit
move_mouse(o) ==
    IF o = "ok" THEN Step(<<"inject:mouse", "activity:mouse">>, FALSE, "none")
    ELSE Step(<<>>, TRUE, "PyAutoGUIException")

\* _scroll_mouse(): pyautogui.scroll / hscroll, then activity_performed.emit
scroll_mouse(o) ==
    IF o = "ok" THEN Step(<<"inject:scroll", "activity:scroll">>, FALSE, "none")
    ELSE Step(<<>>, TRUE, "PyAutoGUIException")

\* _execute_keyboard_macro(): execute_random_macro() presses one key and
\* emits macro_executed ("ok"); it returns False when no macro is enabled
\* ("none") and when the key press raised, which execute_macro catches
\* ("raise"); on False the "No keyboard macros available" line is emitted.
execute_keyboard_macro(o) ==
    IF o = "ok" THEN Step(<<"inject:key", "activity:macro">>, FALSE, "none")
    ELSE Step(<<"activity:no_macro">>, o = "raise", "none")

\* except Exception as e: (line 143)
activity_catches(exc) == exc \in ExceptionClasses

\* The three switches a sequence reads (lines 119-121): mouse_move_enabled
\* and scroll_enabled of the configuration and the macro manager's switch.
\* Only the sequence reads them, afresh each time, and the user may have set
\* them to anything before: they are inputs of the sequence.
Toggles == [mouse : BOOLEAN, scroll : BOOLEAN, keyboard : BOOLEAN]

\* Lines 123-144: nothing when all three switches are off, else the sequence
\* mouse -> scroll -> macro inside one try: a step that raises ends the
\* sequence and the handler of line 143 emits the error line.
run_sequence(mouse_enabled, scroll_enabled, keyboard_enabled, f) ==
    LET s1 == IF mouse_enabled THEN move_mouse(f.mouse)
              ELSE Step(<<>>, FALSE, "none")
        s2 == IF s1.exc = "none" /\ scroll_enabled
              THEN LET r == scroll_mouse(f.scroll)
                   IN Step(s1.ev \o r.ev, r.raised, r.exc)
              ELSE s1
        s3 == IF s2.exc = "none" /\ keyboard_enabled
              THEN LET r == execute_keyboard_macro(f.macro)
                   IN Step(s2.ev \o r.ev, s2.raised \/ r.raised, r.exc)
              ELSE s2
    IN IF ~mouse_enabled /\ ~scroll_enabled /\ ~keyboard_enabled
       THEN Step(<<>>, FALSE, "none")
       ELSE IF s3.exc = "none" THEN s3
       ELSE IF activity_catches(s3.exc)
       THEN Step(s3.ev \o <<"activity:error">>, TRUE, "none")
       ELSE s3

\* _perform_activity(): reads the three switches (lines 119-121) and runs the
\* sequence.  moved: _move_mouse was entered, so the pattern function ran;
\* noop: all three switches were off (the return of line 124).
perform_activity_mut(t, f) ==
    LET r == run_sequence(t.mouse, TRUE, t.keyboard, f)
    IN [ev |-> r.ev, raised |-> r.raised, exc |-> r.exc, moved |-> t.mouse,
        noop |-> ~t.mouse /\ ~t.scroll /\ ~t.keyboard]
perform_activity(t, f) ==
    LET r == run_sequence(t.mouse, t.scroll, t.keyboard, f)
    IN [ev |-> r.ev, raised |-> r.raised, exc |-> r.exc, moved |-> t.mouse,
        noop |-> ~t.mouse /\ ~t.scroll /\ ~t.keyboard]

Failures == [mouse : Outcome, scroll : Outcome, macro : MacroOutcome]

\* Everything a call of _perform_activity() can do in the current state.
ActivityResults == {perform_activity(t, f) : t \in Toggles, f \in Failures}

(***************************************************************************)
(* Movement patterns: the accumulators of _get_circular_position and of    *)
(* _get_linear_position                                                    *)
(***************************************************************************)
Patterns == {"random", "circular", "linear"}

\* _get_circular_position(), lines 230-232: the angle after one invocation.
\* (Thirty-one additions of 0.2 give 6.2 up to rounding, far from 2 * pi.)
get_circular_angle_mut(angle) ==
    IF angle + AngleStep >= TwoPi THEN angle + AngleStep - TwoPi
    ELSE angle + AngleStep
get_circular_angle(angle) ==
    IF angle + AngleStep >= TwoPi THEN 0 ELSE angle + AngleStep

\* Where pyautogui.position() finds the cursor: anywhere on the screen.
CursorX == 0..(ScreenWidth - 1)
CursorY == 0..(ScreenHeight - 1)

\* _get_linear_position(), lines 242-253: the position it returns and the
\* direction it leaves, for a cursor at (current_x, current_y).
get_linear_position_mut(current_x, current_y, distance, direction) ==
    LET dir == IF direction = NoDirection THEN 1 ELSE direction
        new_x == current_x + distance * dir
    IN IF new_x <= EdgeMargin \/ new_x >= ScreenWidth - EdgeMargin
       THEN [x |-> new_x, y |-> current_y, direction |-> 0 - dir]
       ELSE [x |-> new_x, y |-> current_y, direction |-> dir]
get_linear_position(current_x, current_y, distance, direction) ==
    LET dir == IF direction = NoDirection THEN 1 ELSE direction
        new_x == current_x + distance * dir
    IN IF new_x <= EdgeMargin \/ new_x >= ScreenWidth - EdgeMargin
       THEN [x |-> current_x + distance * (0 - dir), y |-> current_y,
             direction |-> 0 - dir]
       ELSE [x |-> new_x, y |-> current_y, direction |-> dir]

\* The directions one linear invocation can leave: the cursor is wherever
\* the user left it and move_distance is read afresh.
LinearDirections(direction) ==
    {get_linear_position(x, 0, d, direction).direction :
        x \in CursorX, d \in 1..MaxDistance}

\* The accumulators after a sequence with result r: _move_mouse (lines
\* 157-165) calls the function of the configured pattern before it moves.
MotionAfter(r) ==
    IF r.moved /\ config.movement_pattern = "circular"
    THEN {[angle |-> get_circular_angle(movement_angle),
           direction |-> linear_direction]}
    ELSE IF r.moved /\ config.movement_pattern = "linear"
    THEN {[angle |-> movement_angle, direction |-> d] :
             d \in LinearDirections(linear_direction)}
    ELSE {[angle |-> movement_angle, direction |-> linear_direction]}

(***************************************************************************)
(* Pointer primitives: where _move_mouse sends the cursor and what         *)
(* _scroll_mouse scrolls                                                   *)
(***************************************************************************)
\* math.cos(0.2 * k) and math.sin(0.2 * k) for k = 0..31, in millionths,
\* rounded towards zero: the angles _movement_angle takes.
CosTable ==
    <<1000000, 980066, 921060, 825335,
      696706, 540302, 362357, 169967,
      0 - 29199, 0 - 227202, 0 - 416146, 0 - 588501,
      0 - 737393, 0 - 856888, 0 - 942222, 0 - 989992,
      0 - 998294, 0 - 966798, 0 - 896758, 0 - 790967,
      0 - 653643, 0 - 490260, 0 - 307332, 0 - 112152,
      87498, 283662, 468516, 634692,
      775565, 885519, 960170, 996542 >>

SinTable ==
    <<0, 198669, 389418, 564642,
      717356, 841470, 932039, 985449,
      999573, 973847, 909297, 808496,
      675463, 515501, 334988, 141120,
      0 - 58374, 0 - 255541, 0 - 442520, 0 - 611857,
      0 - 756802, 0 - 871575, 0 - 951602, 0 - 993691,
      0 - 996164, 0 - 958924, 0 - 883454, 0 - 772764,
      0 - 631266, 0 - 464602, 0 - 279415, 0 - 83089 >>

Max(a, b) == IF a >= b THEN a ELSE b
Min(a, b) == IF a <= b THEN a ELSE b

\* int(distance * math.cos(angle)) for a cosine given in millionths: int()
\* rounds towards zero.
trunc_scaled(distance, millionths) ==
    IF millionths >= 0 THEN (distance * millionths) \div 1000000
    ELSE 0 - ((distance * (0 - millionths)) \div 1000000)

\* _get_random_position(), lines 220-224: the offsets int(r * cos(a)) and
\* int(r * sin(a)) for some r in [1, distance] and some angle a are the
\* whole-number pairs that lie within distance of the origin.
RandomOffsets(distance) ==
    {o \in ((0 - distance)..distance) \X ((0 - distance)..distance) :
        o[1] * o[1] + o[2] * o[2] <= distance * distance}

get_random_position(current_x, current_y, offset) ==
    [x |-> current_x + offset[1], y |-> current_y + offset[2]]

\* _get_circular_position(), lines 230-235: the angle is advanced first and
\* the offset is taken at the new angle.
get_circular_position(current_x, current_y, distance, angle) ==
    LET a == get_circular_angle(angle)
        k == a \div AngleStep
    IN [x |-> current_x + trunc_scaled(distance, CosTable[k + 1]),
        y |-> current_y + trunc_scaled(distance, SinTable[k + 1]),
        angle |-> a]

\* max(0, min(size - 1, v)), lines 169-170
clamp_mut(v, size) == Max(0, Min(size, v))
clamp(v, size) == Max(0, Min(size - 1, v))

\* _move_mouse(), lines 157-170: the position the pattern function returns
\* (raw), the destination handed to pyautogui.moveTo (to) and the
\* accumulators the pattern function leaves.
move_destination(pattern, current_x, current_y, distance, offset) ==
    LET p == IF pattern = "random"
             THEN get_random_position(current_x, current_y, offset)
                      @@ [angle |-> movement_angle,
                          direction |-> linear_direction]
             ELSE IF pattern = "circular"
             THEN get_circular_position(current_x, current_y, distance,
                                        movement_angle)
                      @@ [direction |-> linear_direction]
             ELSE get_linear_position(current_x, current_y, distance,
                                      linear_direction)
                      @@ [angle |-> movement_angle]
    IN [raw |-> <<p.x, p.y>>,
        to |-> <<clamp(p.x, ScreenWidth), clamp(p.y, ScreenHeight)>>,
        angle |-> p.angle, direction |-> p.direction]

\* The values of scroll_pattern the settings window offers (gui.py 189).
ScrollPatterns == {"random", "up", "down", "left", "right"}

\* directions, lines 186-191: name, horizontal clicks, vertical clicks
scroll_directions_mut(scroll_amount) ==
    <<[name |-> "up", h |-> 0, v |-> scroll_amount],
      [name |-> "down", h |-> 0, v |-> 0 - scroll_amount],
      [name |-> "left", h |-> 0 - scroll_amount, v |-> 0 - scroll_amount],
      [name |-> "right", h |-> scroll_amount, v |-> 0]>>
scroll_directions(scroll_amount) ==
    <<[name |-> "up", h |-> 0, v |-> scroll_amount],
      [name |-> "down", h |-> 0, v |-> 0 - scroll_amount],
      [name |-> "left", h |-> 0 - scroll_amount, v |-> 0],
      [name |-> "right", h |-> scroll_amount, v |-> 0]>>

\* _scroll_mouse(), lines 184-216: the calls of pyautogui.hscroll (axis "h")
\* and pyautogui.scroll (axis "v") it makes, in order; choice is the element
\* random.choice picks under the random pattern.
scroll_calls(scroll_pattern, scroll_amount, choice) ==
    IF scroll_pattern = "random"
    THEN LET dir == scroll_directions(scroll_amount)[choice]
         IN (IF dir.h # 0 THEN <<[axis |-> "h", clicks |-> dir.h]>>
             ELSE <<>>)
            \o (IF dir.v # 0 THEN <<[axis |-> "v", clicks |-> dir.v]>>
                ELSE <<>>)
    ELSE IF scroll_pattern = "up"
    THEN <<[axis |-> "v", clicks |-> scroll_amount]>>
    ELSE IF scroll_pattern = "down"
    THEN <<[axis |-> "v", clicks |-> 0 - scroll_amount]>>
    ELSE IF scroll_pattern = "left"
    THEN <<[axis |-> "h", clicks |-> 0 - scroll_amount]>>
    ELSE IF scroll_pattern = "right"
    THEN <<[axis |-> "h", clicks |-> scroll_amount]>>
    ELSE <<>>

(***************************************************************************)
(* Key tokens: KeyboardMacroManager._map_key_name and                      *)
(* validate_key_combination                                                *)
(***************************************************************************)
\* A key token is the sequence of its '+'-separated parts, as
\* key_combination.split('+') gives them; the empty text is <<>>.  The parts
\* a user types, one of each kind the code tells apart.
Components ==
    {"ctrl", "cmd", "shift", "right", "escape", "f5", "A", "-", "foo",
     "bogus_key_xyz"}

\* key.strip().lower(): of the parts above it changes "A".
strip_lower(key) == IF key = "A" THEN "a" ELSE key

\* str.isalnum() on one character: letters and digits.
AlnumCharacters ==
    {"a", "b", "c", "d", "e", "f", "g", "h", "i", "j", "k", "l", "m",
     "n", "o", "p", "q", "r", "s", "t", "u", "v", "w", "x", "y", "z",
     "0", "1", "2", "3", "4", "5", "6", "7", "8", "9"}

\* The characters of the literal on line 360 (but the backtick, which a
\* TLA+ string cannot hold).
PunctuationCharacters ==
    {"~", "!", "@", "#", "$", "%", "^", "&", "*", "(", ")", "_", "+",
     "-", "=", "[", "]", "{", "}", "|", ";", ":", "'", "\"", ",", ".", "<",
     ">", "?", "/", "\\"}

\* len(key) == 1
Characters == AlnumCharacters \cup PunctuationCharacters

\* key_mappings, lines 269-323 (the backtick's entry is left out)
key_mappings ==
    [cmd |-> "command", command |-> "command",
     win |-> "winleft", windows |-> "winleft",
     winleft |-> "winleft", winright |-> "winright",
     ctrl |-> "ctrl", control |-> "ctrl", alt |-> "alt", option |-> "alt",
     shift |-> "shift",
     up |-> "up", down |-> "down", left |-> "left", right |-> "right",
     f1 |-> "f1", f2 |-> "f2", f3 |-> "f3", f4 |-> "f4",
     f5 |-> "f5", f6 |-> "f6", f7 |-> "f7", f8 |-> "f8",
     f9 |-> "f9", f10 |-> "f10", f11 |-> "f11", f12 |-> "f12",
     space |-> "space", enter |-> "enter", return |-> "enter",
     tab |-> "tab", escape |-> "esc", esc |-> "esc",
     backspace |-> "backspace", delete |-> "delete", home |-> "home",
     end |-> "end", pageup |-> "pageup", pagedown |-> "pagedown",
     insert |-> "insert",
     comma |-> ",", period |-> ".", slash |-> "/", backslash |-> "\\",
     semicolon |-> ";", quote |-> "'", bracket_left |-> "[",
     bracket_right |-> "]", minus |-> "-", equal |-> "="]

\* _map_key_name(), lines 266-328: key_mappings.get(key, key)
map_key_name(key) ==
    LET k == strip_lower(key)
    IN IF k \in DOMAIN key_mappings THEN key_mappings[k] ELSE k

\* Lines 347-355
valid_modifiers ==
    {"ctrl", "control", "alt", "option", "shift", "cmd", "command", "win",
     "windows", "winleft", "winright"}

valid_function_keys ==
    {"f1", "f2", "f3", "f4", "f5", "f6", "f7", "f8", "f9", "f10", "f11",
     "f12"}

valid_special_keys ==
    {"space", "enter", "return", "tab", "escape", "esc", "backspace",
     "delete", "home", "end", "pageup", "pagedown", "insert",
     "up", "down", "left", "right",
     "comma", "period", "slash", "backslash", "semicolon", "quote",
     "bracket_left", "bracket_right", "minus", "equal"}

\* The list of lines 378-380 (single keys).
single_known_keys ==
    {"space", "enter", "tab", "escape", "esc", "backspace",
     "delete", "home", "end", "pageup", "pagedown", "insert",
     "up", "down", "left", "right"}

\* key.startswith('f'), for the keys above and the parts of Components.
starts_with_f(key) == key \in valid_function_keys \cup {"f", "foo"}

\* Lines 358-368, one key of a combination: TRUE when the loop goes on.
valid_in_combination(key) ==
    \/ key \in Characters
          /\ (key \in AlnumCharacters \/ key \in PunctuationCharacters)
    \/ key \in valid_modifiers
    \/ key \in valid_function_keys
    \/ key \in valid_special_keys
    \/ map_key_name(key) # key

\* Lines 372-383, a token without '+'.
valid_single(key) ==
    IF key \in Characters THEN TRUE
    ELSE ~(/\ map_key_name(key) = key
           /\ key \notin single_known_keys
           /\ ~starts_with_f(key))

\* validate_key_combination(), lines 343-383
validate_key_combination(key_combination) ==
    IF Len(key_combination) > 1
    THEN \A i \in DOMAIN key_combination :
            valid_in_combination(strip_lower(key_combination[i]))
    ELSE valid_single(IF key_combination = <<>> THEN ""
                      ELSE strip_lower(key_combination[1]))

(***************************************************************************)
(* Macro Registry: KeyboardMacro and KeyboardMacroManager                  *)
(***************************************************************************)
\* A KeyboardMacro is its name, its keys (a list of key tokens) and its
\* enabled flag; the delay and the description play no part here.
Names == {"Refresh Page", "Arrow Keys"}

\* keys of the macros the registry is followed with: none, or a single key
\* and a combination.
KeyLists ==
    {<<>>, <<<<"up">>, <<"ctrl", "s">>>>}

Macros == [name : Names, keys : KeyLists, enabled : BOOLEAN]

\* What the fields of the macro dialog can hold when OK is pressed: also no
\* name, and a key that is no key.
FormNames == Names \cup {""}
FormKeys == KeyLists \cup {<<<<"ctrl", "bogus_key_xyz">>>>}

\* _create_default_macros(), lines 71-116 (the first of the seven).
DefaultMacros ==
    <<[name |-> "Arrow Keys", keys |-> <<<<"up">>, <<"down">>>>,
       enabled |-> TRUE]>>

\* After __init__ (lines 59-68) of a fresh installation: the defaults, and
\* the switch off.
FreshRegistry == {[macros |-> DefaultMacros, enabled |-> FALSE]}

\* After __init__ with a macros file: load_macros() (lines 118-132) takes
\* the list and the switch from the file as they are; without a file, or
\* with an empty list, the defaults are created (line 67).
LoadedRegistries ==
    [macros : UNION {[1..n -> Macros] : n \in 1..MaxMacros},
     enabled : BOOLEAN]
        \cup FreshRegistry

RegistryStart(registries) ==
    \E g \in registries : macros = g.macros /\ enabled = g.enabled

\* The index of the first macro called name, 0 when there is none: the
\* loops of remove_macro, update_macro and get_macro.
first_named(name) ==
    IF \E i \in DOMAIN macros : macros[i].name = name
    THEN CHOOSE i \in DOMAIN macros :
            /\ macros[i].name = name
            /\ \A j \in 1..(i - 1) : macros[j].name # name
    ELSE 0

\* get_enabled_macros(), line 183
get_enabled_macros_mut == macros
get_enabled_macros == SelectSeq(macros, LAMBDA m : m.enabled)

\* Lines 214-217: the key token to press; choice is the element
\* random.choice picks when there are several.  <<>> is the empty text.
key_to_press(macro, choice) ==
    IF Len(macro.keys) > 1 THEN macro.keys[choice]
    ELSE IF macro.keys # <<>> THEN macro.keys[1]
    ELSE <<>>

\* _press_key(), lines 240-258: the calls of pyautogui it makes for a key
\* token, one hotkey of the mapped parts or one press of the mapped key.
press_key_mut(key_combination) ==
    [i \in DOMAIN key_combination |->
        [fn |-> "press", keys |-> <<map_key_name(key_combination[i])>>,
         token |-> key_combination]]
press_key(key_combination) ==
    IF Len(key_combination) > 1
    THEN <<[fn |-> "hotkey",
            keys |-> [i \in DOMAIN key_combination |->
                         map_key_name(key_combination[i])],
            token |-> key_combination]>>
    ELSE <<[fn |-> "press", keys |-> <<map_key_name(key_combination[1])>>,
            token |-> key_combination]>>

\* except Exception as e: (line 232)
macro_catches_mut(exc) == FALSE
macro_catches(exc) == exc \in ExceptionClasses

\* What a call of execute_macro / execute_random_macro did: the value
\* returned, the macro handed to execute_macro (ran: there was one), the
\* calls of pyautogui that succeeded, whether time.sleep(macro.delay) ran,
\* whether macro_executed was emitted, whether the primitive raised and
\* whether an exception left the call.
Run(ret, pressed, done, raised, escaped) ==
    [ret |-> ret, pressed |-> pressed, slept |-> done, emitted |-> done,
     raised |-> raised, escaped |-> escaped]

\* execute_macro(), lines 209-234; o is the outcome of pyautogui.press /
\* pyautogui.hotkey.
execute_macro_mut(macro, choice, o) ==
    LET key == key_to_press(macro, choice)
    IN IF key = <<>> THEN Run(FALSE, <<>>, FALSE, FALSE, FALSE)
       ELSE IF o = "raise"
       THEN Run(FALSE, <<>>, FALSE, TRUE,
                ~macro_catches("PyAutoGUIException"))
       ELSE Run(TRUE, press_key(key), TRUE, FALSE, FALSE)
execute_macro(macro, choice, o) ==
    IF ~macro.enabled THEN Run(FALSE, <<>>, FALSE, FALSE, FALSE)
    ELSE LET key == key_to_press(macro, choice)
         IN IF key = <<>> THEN Run(FALSE, <<>>, FALSE, FALSE, FALSE)
            ELSE IF o = "raise"
            THEN Run(FALSE, <<>>, FALSE, TRUE,
                     ~macro_catches("PyAutoGUIException"))
            ELSE Run(TRUE, press_key(key), TRUE, FALSE, FALSE)

\* test_macro(), lines 332-337: execute_macro inside its own try.
test_macro(macro, choice, o) ==
    LET r == execute_macro(macro, choice, o)
    IN IF r.escaped /\ "PyAutoGUIException" \in ExceptionClasses
       THEN [r EXCEPT !.escaped = FALSE]
       ELSE r

\* The choices random.choice has among the keys of a macro.
KeyChoices(macro) ==
    IF Len(macro.keys) > 1 THEN DOMAIN macro.keys ELSE {1}

\* MacroEditDialog.get_macro(), gui.py 681-718, for the fields as filled
\* in: None (ok is FALSE) after a warning, else the macro.
dialog_get_macro(name, keys, flag) ==
    IF name = "" THEN [ok |-> FALSE]
    ELSE IF keys = <<>> THEN [ok |-> FALSE]
    ELSE IF \E i \in DOMAIN keys : ~validate_key_combination(keys[i])
    THEN [ok |-> FALSE]
    ELSE [ok |-> TRUE,
          macro |-> [name |-> name, keys |-> keys, enabled |-> flag]]

(***************************************************************************)
(* Activity Scheduler: MouseController                                     *)
(***************************************************************************)
NumericKeys == {"idle_threshold", "move_interval", "check_interval"}

\* The configurations the scheduler's behaviours start from; the movement
\* pattern is the default one.
ConfigDomain ==
    [idle_threshold : (1..MaxIdle) \cup {NotANumber},
     move_interval : 1..MaxInterval,
     check_interval : 1..MaxInterval,
     movement_pattern : {"random"}]

\* The configurations the movement patterns' behaviours start from.
MotionConfigDomain ==
    [idle_threshold : {1},
     move_interval : {1},
     check_interval : 1..MaxInterval,
     movement_pattern : Patterns]

\* The record a handler starts with: what it found when it was dispatched.
\* kind: the handler; idle: the idle time it sampled; due: should_act;
\* seqs: its calls of _perform_activity so far; raised: something in it
\* raised; escaped: an exception left the handler; noop: its sequence found
\* all three switches off.
\* The configurations of the pointer steps: one movement pattern each.
PointerConfigDomain ==
    [idle_threshold : {1}, move_interval : {1}, check_interval : {1},
     movement_pattern : Patterns]

Frame(kind) ==
    [kind |-> kind, idle |-> NotSampled, due |-> FALSE, seqs |-> 0,
     raised |-> FALSE, escaped |-> FALSE, noop |-> FALSE]

\* No handler has run since the clock last moved.
NoFrame == Frame("none")

\* No component has been called directly.
NoCall == [fn |-> "none"]

\* MouseController.__init__ with a configuration out of configs.
SchedStart(configs) ==
    /\ movement_angle = 0
    /\ linear_direction = NoDirection
    /\ call = NoCall
    /\ now = Epoch
    /\ is_enabled = FALSE
    /\ last_move_time = 0
    /\ last_activity_time = Epoch
    /\ timer_active = FALSE
    /\ timer_interval = 0
    /\ timer_left = 0
    /\ late = FALSE
    /\ config \in configs
    /\ tick_pc = "idle"
    /\ force_pc = "idle"
    /\ current_time = 0
    /\ h = NoFrame
    /\ events = <<>>

SchedInit == SchedStart(ConfigDomain)

\* The event loop of main() (app.exec()) runs every slot - the timer's
\* timeout, the GUI's and the tray's triggers, config_changed - on one
\* thread, one at a time: a slot is dispatched only when none is running.
LoopIdle_mut == TRUE
LoopIdle == tick_pc = "idle" /\ force_pc = "idle"

\* if not self._is_enabled: (start)
start_guard_mut == TRUE
start_guard == ~is_enabled

\* if self._is_enabled: (stop)
stop_guard == is_enabled

\* if not self._is_enabled: return (tick)
tick_guard_mut == TRUE
tick_guard == is_enabled

\* if self._is_enabled: (force_activity)
force_guard_mut == TRUE
force_guard == is_enabled

\* should_act = (idle_time >= idle_threshold and
\*               time_since_last_move >= move_interval)
should_act_mut(idle_time, idle_threshold, since, move_interval) ==
    idle_time >= idle_threshold \/ since >= move_interval
should_act_strict(idle_time, idle_threshold, since, move_interval) ==
    idle_time > idle_threshold /\ since > move_interval
should_act_norate(idle_time, idle_threshold, since, move_interval) ==
    idle_time >= idle_threshold
should_act(idle_time, idle_threshold, since, move_interval) ==
    idle_time >= idle_threshold /\ since >= move_interval

\* self._last_move_time = current_time (tick, line 107)
tick_timestamp_mut == now
tick_timestamp_noop == IF h.noop THEN last_move_time ELSE current_time
tick_timestamp == current_time

\* reset_idle_time(): self._last_activity_time = time.time()
reset_idle_time_mut == last_activity_time
reset_idle_time == now

\* except Exception as e: (line 114)
tick_catches_mut(exc) == sensor_catches(exc)
tick_catches(exc) == exc \in ExceptionClasses

\* start()
start ==
    /\ UNCHANGED <<guard_vars, registry_vars, motion_vars, call>>
    /\ LoopIdle
    /\ h' = Frame("start")
    /\ IF start_guard
       THEN /\ is_enabled' = TRUE
            /\ timer_interval' = config.check_interval * MsPerSecond
            /\ timer_active' = TRUE
            /\ timer_left' = timer_interval' \div MsPerSecond
            /\ events' = <<"status:started">>
       ELSE /\ UNCHANGED <<is_enabled, timer_interval, timer_active, timer_left>>
            /\ events' = <<>>
    /\ UNCHANGED <<now, last_move_time, last_activity_time, late, config, tick_pc, force_pc, current_time>>

\* stop().  A timeout that was due and not yet delivered may still arrive.
stop ==
    /\ UNCHANGED <<guard_vars, registry_vars, motion_vars, call>>
    /\ LoopIdle
    /\ h' = Frame("stop")
    /\ IF stop_guard
       THEN /\ is_enabled' = FALSE
            /\ timer_active' = FALSE
            /\ timer_left' = 0
            /\ late' = (late \/ (timer_active /\ timer_left = 0))
            /\ events' = <<"status:stopped">>
       ELSE /\ UNCHANGED <<is_enabled, timer_active, timer_left, late>>
            /\ events' = <<>>
    /\ UNCHANGED <<now, last_move_time, last_activity_time, timer_interval,
                   config, tick_pc, force_pc, current_time>>

\* The timeout that dispatches the tick: the running timer's (which re-arms
\* for another interval) or one left over from before a stop().
timeout_delivery ==
    /\ (timer_active /\ timer_left = 0) \/ late
    /\ IF timer_active /\ timer_left = 0
       THEN /\ timer_left' = timer_interval \div MsPerSecond
            /\ late' = late
       ELSE /\ timer_left' = timer_left
            /\ late' = FALSE

\* _check_idle_and_act(), lines 88-115 up to the call of _perform_activity:
\* the enabled check, the sample, the configuration reads, the clock read and
\* the decision.  A tick that is not due ends here with its status line.
check_idle_and_act ==
    /\ UNCHANGED <<guard_vars, registry_vars, motion_vars, call>>
    /\ LoopIdle
    /\ timeout_delivery
    /\ IF ~tick_guard
       THEN /\ h' = Frame("tick")
            /\ events' = <<>>
            /\ UNCHANGED <<tick_pc, current_time>>
       ELSE \E r \in SensorResults :
            LET
                idle_threshold == config.idle_threshold
                move_interval == config.move_interval
                exc == IF r.exc # "none" THEN r.exc
                       ELSE IF idle_threshold = NotANumber THEN "TypeError"
                       ELSE "none"
                time_since_last_move == now - last_move_time
                f == [Frame("tick") EXCEPT !.idle = r.value]
            IN IF exc # "none"
               THEN /\ h' = [f EXCEPT !.raised = TRUE,
                                      !.escaped = ~tick_catches(exc)]
                    /\ events' = IF tick_catches(exc) THEN <<"status:error">>
                                 ELSE <<>>
                    /\ UNCHANGED <<tick_pc, current_time>>
               ELSE IF should_act(r.value, idle_threshold,
                                  time_since_last_move, move_interval)
               THEN /\ h' = [f EXCEPT !.due = TRUE]
                    /\ events' = <<>>
                    /\ tick_pc' = "act"
                    /\ current_time' = now
               ELSE /\ h' = f
                    /\ events' = <<"status:idle">>
                    /\ UNCHANGED <<tick_pc, current_time>>
    /\ UNCHANGED <<now, is_enabled, last_move_time, last_activity_time,
                   timer_active, timer_interval, config,
                   force_pc>>

\* Line 106 of the tick: self._perform_activity().  An exception leaving it
\* skips lines 107-112 and reaches the handler of line 114.
tick_perform ==
    /\ UNCHANGED <<guard_vars, registry_vars, call>>
    /\ tick_pc = "act"
    /\ \E r \in ActivityResults : \E m \in MotionAfter(r) :
         /\ movement_angle' = m.angle
         /\ linear_direction' = m.direction
         /\
           IF r.exc = "none"
           THEN /\ events' = events \o r.ev
                /\ h' = [h EXCEPT !.seqs = @ + 1, !.raised = r.raised,
                                  !.noop = r.noop]
                /\ tick_pc' = "update"
                /\ UNCHANGED current_time
           ELSE /\ events' = events \o r.ev \o
                               (IF tick_catches(r.exc) THEN <<"status:error">>
                                ELSE <<>>)
                /\ h' = [h EXCEPT !.seqs = @ + 1, !.raised = TRUE,
                                  !.escaped = ~tick_catches(r.exc)]
                /\ tick_pc' = "idle"
                /\ current_time' = 0
    /\ UNCHANGED <<now, is_enabled, last_move_time, last_activity_time,
                   timer_active, timer_interval, timer_left, late, config, force_pc>>

\* Lines 107-112 of the tick: the timestamp, the sensor reset, the status.
tick_update ==
    /\ UNCHANGED <<guard_vars, registry_vars, motion_vars, call>>
    /\ tick_pc = "update"
    /\ last_move_time' = tick_timestamp
    /\ last_activity_time' = reset_idle_time
    /\ events' = Append(events, "status:idle")
    /\ h' = h
    /\ tick_pc' = "idle"
    /\ current_time' = 0
    /\ UNCHANGED <<now, is_enabled, timer_active, timer_interval, timer_left,
                   late, config, force_pc>>

\* force_activity(), lines 257-258: the enabled check and the sequence.
force_activity ==
    /\ UNCHANGED <<guard_vars, registry_vars, call>>
    /\ LoopIdle
    /\ IF force_guard
       THEN \E r \in ActivityResults : \E m \in MotionAfter(r) :
               /\ movement_angle' = m.angle
               /\ linear_direction' = m.direction
               /\ events' = r.ev
               /\ h' = [Frame("force") EXCEPT !.seqs = 1,
                                              !.raised = r.raised,
                                              !.escaped = r.exc # "none",
                                              !.noop = r.noop]
               /\ force_pc' = IF r.exc = "none" THEN "update" ELSE "idle"
       ELSE /\ events' = <<>>
            /\ h' = Frame("force")
            /\ force_pc' = "idle"
            /\ UNCHANGED motion_vars
    /\ UNCHANGED <<now, is_enabled, last_move_time, last_activity_time,
                   timer_active, timer_interval, timer_left, late, config, tick_pc, current_time>>

\* force_activity(), lines 259-260: the timestamp and the sensor reset.
force_update ==
    /\ UNCHANGED <<guard_vars, registry_vars, motion_vars, call>>
    /\ force_pc = "update"
    /\ last_move_time' = now
    /\ last_activity_time' = reset_idle_time
    /\ h' = h
    /\ force_pc' = "idle"
    /\ UNCHANGED <<now, is_enabled, timer_active, timer_interval, timer_left,
                   late, config, tick_pc, current_time, events>>

\* _on_config_changed(), the slot of ConfigManager.config_changed
on_config_changed_mut ==
    LET new_interval == config'.check_interval * MsPerSecond
    IN IF timer_interval # new_interval
       THEN /\ timer_interval' = new_interval
            /\ timer_left' = new_interval \div MsPerSecond
       ELSE UNCHANGED <<timer_interval, timer_left>>
on_config_changed ==
    LET new_interval == config'.check_interval * MsPerSecond
    IN IF is_enabled /\ timer_interval # new_interval
       THEN /\ timer_interval' = new_interval
            /\ timer_left' = new_interval \div MsPerSecond
       ELSE UNCHANGED <<timer_interval, timer_left>>

\* ConfigManager.set(key, value): stores the value, then save_config()
\* writes the file and emits config_changed; when the write fails nothing
\* is emitted.
set(key, value) ==
    /\ UNCHANGED <<guard_vars, registry_vars, motion_vars, call>>
    /\ config' = [config EXCEPT ![key] = value]
    /\ \E saved \in BOOLEAN :
          IF saved
          THEN /\ events' = <<"config:changed">>
               /\ on_config_changed
          ELSE /\ events' = <<>>
               /\ UNCHANGED <<timer_interval, timer_left>>
    /\ h' = Frame("config")
    /\ UNCHANGED <<now, is_enabled, last_move_time, last_activity_time,
                   timer_active, late, tick_pc, force_pc,
                   current_time>>

\* The spin boxes of the settings form: a number for one numeric key.
config_set ==
    /\ LoopIdle
    /\ \E key \in NumericKeys :
        \E value \in IF key = "idle_threshold" THEN 1..MaxIdle
                     ELSE 1..MaxInterval :
            set(key, value)

\* The check interval spin box alone.
set_check_interval ==
    /\ LoopIdle
    /\ \E value \in 1..MaxInterval : set("check_interval", value)

\* The pattern combo box of the settings form.
set_movement_pattern ==
    /\ LoopIdle
    /\ \E p \in Patterns : set("movement_pattern", p)

\* ConfigManager._load_default_config(): the numeric keys the scheduler
\* reads and the movement pattern.
DefaultConfig ==
    [idle_threshold |-> 300, move_interval |-> 30, check_interval |-> 5,
     movement_pattern |-> "random"]

\* Numbers a configuration file or a caller of set() may hold for a numeric
\* key: below, inside and above the ranges of the settings form.
ConfigValues == {0, 2, 5, 300, 400}

\* ConfigManager.load_config(): the JSON object of the file is merged over
\* the current values with dict.update(); nothing is saved or emitted.
load_config ==
    /\ UNCHANGED <<guard_vars, registry_vars, motion_vars, call>>
    /\ LoopIdle
    /\ \E keys \in SUBSET NumericKeys :
          \E loaded_config \in [keys -> ConfigValues] :
              config' = [k \in DOMAIN config |->
                            IF k \in keys THEN loaded_config[k] ELSE config[k]]
    /\ h' = Frame("config")
    /\ events' = <<>>
    /\ UNCHANGED <<now, is_enabled, last_move_time, last_activity_time,
                   timer_active, timer_interval, timer_left, late,
                   tick_pc, force_pc, current_time>>

\* ConfigManager.reset_to_defaults(): the defaults replace every value,
\* then save_config() writes the file and emits config_changed.
reset_to_defaults ==
    /\ UNCHANGED <<guard_vars, registry_vars, motion_vars, call>>
    /\ LoopIdle
    /\ config' = DefaultConfig
    /\ \E saved \in BOOLEAN :
          IF saved
          THEN /\ events' = <<"config:changed">>
               /\ on_config_changed
          ELSE /\ events' = <<>>
               /\ UNCHANGED <<timer_interval, timer_left>>
    /\ h' = Frame("config")
    /\ UNCHANGED <<now, is_enabled, last_move_time, last_activity_time,
                   timer_active, late, tick_pc, force_pc,
                   current_time>>

\* One second passes, also while a handler sleeps or injects.  The record
\* of the last handler is kept while it runs and until the clock moves on.
advance ==
    /\ UNCHANGED <<guard_vars, registry_vars, motion_vars>>
    /\ call' = NoCall
    /\ now < MaxTime
    /\ now' = now + 1
    /\ timer_left' = IF timer_active /\ timer_left > 0 THEN timer_left - 1
                     ELSE timer_left
    /\ h' = IF LoopIdle THEN NoFrame ELSE h
    /\ events' = IF LoopIdle THEN <<>> ELSE events
    /\ UNCHANGED <<is_enabled, last_move_time, last_activity_time,
                   timer_active, timer_interval, late, config,
                   tick_pc, force_pc, current_time>>

\* One second passes while the event loop is punctual: no timeout is due
\* and no handler is running.  The code uses a timestamp t only as
\* time.time() - t (lines 63 and 99), so the second is counted by moving
\* every timestamp one back instead of the clock one on, and the behaviour
\* needs no horizon.  An age stops growing at the value of the clock, Epoch,
\* which is above every interval and threshold an age is compared with.
elapse ==
    /\ UNCHANGED <<guard_vars, registry_vars, motion_vars>>
    /\ call' = NoCall
    /\ LoopIdle
    /\ ~(timer_active /\ timer_left = 0)
    /\ ~late
    /\ last_move_time' = Max(last_move_time - 1, 0)
    /\ last_activity_time' = Max(last_activity_time - 1, 0)
    /\ timer_left' = IF timer_active THEN timer_left - 1 ELSE timer_left
    /\ h' = NoFrame
    /\ events' = <<>>
    /\ UNCHANGED <<now, is_enabled, timer_active, timer_interval, late, config,
                   tick_pc, force_pc, current_time>>

\* A tick whose sample reports an idle time of at least the threshold.
idle_tick ==
    /\ check_idle_and_act
    /\ ~h'.raised
    /\ h'.idle >= config.idle_threshold

(***************************************************************************)
(* Direct calls of the components, for the claims about one call           *)
(***************************************************************************)
\* IdleDetector.is_idle(threshold_seconds) for a sample of get_idle_time()
is_idle(sample, threshold_seconds) == sample >= threshold_seconds

\* One call of IdleDetector.get_idle_time() with its probes' outcomes.
call_get_idle_time ==
    /\ \E primary \in Primary, secondary \in Secondary, hid \in 0..MaxIdle :
          call' = [fn |-> "get_idle_time", primary |-> primary,
                   secondary |-> secondary, hid |-> hid,
                   r |-> get_idle_time(primary, secondary, hid)]
    /\ UNCHANGED <<guard_vars, registry_vars, sched_vars>>

\* One call of IdleDetector.reset_idle_time().
call_reset_idle_time ==
    /\ last_activity_time' = reset_idle_time
    /\ call' = [fn |-> "reset_idle_time"]
    /\ UNCHANGED <<guard_vars, registry_vars, now, is_enabled, last_move_time, timer_active,
                   timer_interval, timer_left, late, config, tick_pc,
                   force_pc, current_time, motion_vars, h, events>>

\* One call of MouseController._perform_activity() with the switches as
\* set and the primitives' outcomes.
call_perform_activity ==
    /\ \E t \in Toggles, f \in Failures :
          LET r == perform_activity(t, f)
          IN \E m \in MotionAfter(r) :
               /\ movement_angle' = m.angle
               /\ linear_direction' = m.direction
               /\ call' = [fn |-> "perform_activity", t |-> t, f |-> f,
                           r |-> r]
    /\ UNCHANGED <<guard_vars, registry_vars, now, is_enabled, last_move_time,
                   last_activity_time, timer_active, timer_interval,
                   timer_left, late, config, tick_pc, force_pc,
                   current_time, h, events>>

\* One call of MouseController._move_mouse() with the cursor where the
\* user left it; move_distance is read afresh (line 159).  The record keeps
\* the destination and, per axis, whether lines 169-170 changed the
\* position the pattern function returned.
call_move_mouse ==
    /\ \E x \in CursorX, y \in CursorY, d \in 1..MaxDistance :
         \E o \in IF config.movement_pattern = "random"
                  THEN RandomOffsets(d) ELSE {<<0, 0>>} :
            LET m == move_destination(config.movement_pattern, x, y, d, o)
            IN /\ movement_angle' = m.angle
               /\ linear_direction' = m.direction
               /\ call' = [fn |-> "move_mouse", to |-> m.to,
                           clamped |-> <<m.raw[1] # m.to[1],
                                         m.raw[2] # m.to[2]>>]
    /\ UNCHANGED <<guard_vars, registry_vars, now, is_enabled, last_move_time,
                   last_activity_time, timer_active, timer_interval,
                   timer_left, late, config, tick_pc, force_pc,
                   current_time, h, events>>

\* One call of MouseController._get_linear_position(), as _move_mouse makes
\* it under the linear pattern (line 166).
call_get_linear_position ==
    /\ config.movement_pattern = "linear"
    /\ \E x \in CursorX, y \in CursorY, d \in 1..MaxDistance :
          LET r == get_linear_position(x, y, d, linear_direction)
          IN /\ linear_direction' = r.direction
             /\ call' = [fn |-> "get_linear_position", x |-> x, y |-> y,
                         distance |-> d, direction |-> linear_direction,
                         r |-> r]
    /\ UNCHANGED <<guard_vars, registry_vars, now, is_enabled, last_move_time,
                   last_activity_time, timer_active, timer_interval,
                   timer_left, late, config, tick_pc, force_pc,
                   current_time, movement_angle, h, events>>

\* One _move_mouse() under the linear pattern: pyautogui.position(), the
\* pattern function, the clamp and pyautogui.moveTo(new_x, new_y), which
\* leaves the cursor at `to`.  For the first move the cursor is wherever
\* the user left it and move_distance is whatever the configuration holds;
\* after that nobody touches the mouse or the settings, so the cursor is
\* where the last move went.
linear_move ==
    /\ config.movement_pattern = "linear"
    /\ \E current_x \in CursorX, current_y \in CursorY,
          distance \in 1..MaxDistance :
          /\ call.fn = "linear_move"
                => /\ current_x = call.to[1]
                   /\ current_y = call.to[2]
                   /\ distance = call.distance
          /\ LET m == move_destination("linear", current_x, current_y,
                                       distance, <<0, 0>>)
             IN /\ linear_direction' = m.direction
                /\ call' = [fn |-> "linear_move", x |-> current_x,
                            distance |-> distance, to |-> m.to]
    /\ UNCHANGED <<guard_vars, registry_vars, now, is_enabled, last_move_time,
                   last_activity_time, timer_active, timer_interval,
                   timer_left, late, config, tick_pc, force_pc,
                   current_time, movement_angle, h, events>>

\* One call of MouseController._scroll_mouse(); scroll_amount and
\* scroll_pattern are read afresh (lines 178-179).
call_scroll_mouse ==
    /\ \E p \in ScrollPatterns, a \in 1..MaxScroll :
       \E choice \in DOMAIN scroll_directions(a) :
          call' = [fn |-> "scroll_mouse", scroll_pattern |-> p,
                   scroll_amount |-> a, calls |-> scroll_calls(p, a, choice)]
    /\ UNCHANGED <<guard_vars, registry_vars, sched_vars>>

\* The pointer steps on their own.
PointerNext ==
    \/ call_move_mouse
    \/ call_get_linear_position
    \/ call_scroll_mouse

\* One call of KeyboardMacroManager.validate_key_combination(), as the
\* macro dialog makes it each time OK is pressed: on a key text of one part,
\* or on the text of the last call with one more part typed.
call_validate_key_combination ==
    /\ \E c \in Components :
         \E t \in {<<>>, <<c>>}
                  \cup IF /\ call.fn = "validate_key_combination"
                          /\ Len(call.key_combination) < MaxComponents
                       THEN {Append(call.key_combination, c)}
                       ELSE {} :
            call' = [fn |-> "validate_key_combination",
                     key_combination |-> t,
                     r |-> validate_key_combination(t)]
    /\ UNCHANGED <<guard_vars, registry_vars, sched_vars>>

KeysNext == call_validate_key_combination

(***************************************************************************)
(* Macro Registry: one action per operation.  save_macros() writes the     *)
(* file and emits macros_changed; neither is followed.  The record of an   *)
(* add or update says whether the list is other than it was (changed).     *)
(***************************************************************************)
RegistryFrame == UNCHANGED <<guard_vars, sched_vars>>

\* add_macro(), lines 149-150
add_macro ==
    /\ Len(macros) < MaxMacros
    /\ \E macro \in Macros :
          /\ macros' = Append(macros, macro)
          /\ call' = [fn |-> "add_macro", macro |-> macro,
                      changed |-> TRUE]
    /\ UNCHANGED enabled
    /\ RegistryFrame

\* remove_macro(), lines 154-159
remove_macro ==
    /\ \E name \in Names :
          LET i == first_named(name)
          IN /\ macros' = IF i = 0 THEN macros
                          ELSE SubSeq(macros, 1, i - 1)
                                  \o SubSeq(macros, i + 1, Len(macros))
             /\ call' = [fn |-> "remove_macro", name |-> name,
                         ret |-> i # 0]
    /\ UNCHANGED enabled
    /\ RegistryFrame

\* update_macro(), lines 163-168
update_macro ==
    /\ \E old_name \in Names, updated_macro \in Macros :
          LET i == first_named(old_name)
          IN /\ macros' = IF i = 0 THEN macros
                          ELSE [macros EXCEPT ![i] = updated_macro]
             /\ call' = [fn |-> "update_macro", name |-> old_name,
                         macro |-> updated_macro, ret |-> i # 0,
                         changed |-> i # 0 /\ macros[i] # updated_macro]
    /\ UNCHANGED enabled
    /\ RegistryFrame

\* set_enabled(), lines 191-192
set_enabled ==
    /\ \E flag \in BOOLEAN :
          /\ enabled' = flag
          /\ call' = [fn |-> "set_enabled", enabled |-> flag]
    /\ UNCHANGED macros
    /\ RegistryFrame

\* execute_random_macro(), lines 196-205
call_execute_random_macro ==
    /\ IF ~enabled \/ get_enabled_macros = <<>>
       THEN call' = [fn |-> "execute_random_macro", ran |-> FALSE,
                     r |-> Run(FALSE, <<>>, FALSE, FALSE, FALSE)]
       ELSE \E pick \in DOMAIN get_enabled_macros :
               LET macro == get_enabled_macros[pick]
               IN \E choice \in KeyChoices(macro), o \in Outcome :
                     call' = [fn |-> "execute_random_macro", ran |-> TRUE,
                              macro |-> macro,
                              r |-> execute_macro(macro, choice, o)]
    /\ UNCHANGED registry_vars
    /\ RegistryFrame

\* execute_macro() called on a macro of the registry.
call_execute_macro ==
    /\ \E i \in DOMAIN macros :
          \E choice \in KeyChoices(macros[i]), o \in Outcome :
             call' = [fn |-> "execute_macro", ran |-> TRUE,
                      macro |-> macros[i],
                      r |-> execute_macro(macros[i], choice, o)]
    /\ UNCHANGED registry_vars
    /\ RegistryFrame

\* MouseKeeperGUI.test_macro(), gui.py 560-578: get_macro(name) of the
\* selected row, then test_macro() on it.
call_test_macro ==
    /\ \E name \in Names :
          /\ first_named(name) # 0
          /\ LET macro == macros[first_named(name)]
             IN \E choice \in KeyChoices(macro), o \in Outcome :
                   call' = [fn |-> "test_macro", ran |-> TRUE,
                            macro |-> macro,
                            r |-> test_macro(macro, choice, o)]
    /\ UNCHANGED registry_vars
    /\ RegistryFrame

\* MouseKeeperGUI.add_macro(), gui.py 506-510: the dialog's macro, when it
\* gives one, is added.
gui_add_macro ==
    /\ Len(macros) < MaxMacros
    /\ \E name \in FormNames, keys \in FormKeys, flag \in BOOLEAN :
          LET m == dialog_get_macro(name, keys, flag)
          IN /\ macros' = IF m.ok THEN Append(macros, m.macro) ELSE macros
             /\ call' = [fn |-> "gui.add_macro", ok |-> m.ok]
    /\ UNCHANGED enabled
    /\ RegistryFrame

\* MouseKeeperGUI.edit_macro(), gui.py 521-528: the dialog's macro, when it
\* gives one, replaces the selected one.
gui_edit_macro ==
    /\ \E old_name \in Names :
          /\ first_named(old_name) # 0
          /\ \E name \in FormNames, keys \in FormKeys, flag \in BOOLEAN :
                LET m == dialog_get_macro(name, keys, flag)
                IN /\ macros' = IF m.ok
                                THEN [macros EXCEPT
                                         ![first_named(old_name)] = m.macro]
                                ELSE macros
                   /\ call' = [fn |-> "gui.edit_macro", ok |-> m.ok]
    /\ UNCHANGED enabled
    /\ RegistryFrame

RegistryNext ==
    \/ add_macro
    \/ remove_macro
    \/ update_macro
    \/ set_enabled
    \/ call_execute_random_macro
    \/ call_execute_macro
    \/ call_test_macro
    \/ gui_add_macro
    \/ gui_edit_macro

CallsNext ==
    \/ call_get_idle_time
    \/ call_reset_idle_time
    \/ call_perform_activity
    \/ advance

\* The movement patterns under forced sequences and settings changes.
MotionNext ==
    \/ start
    \/ stop
    \/ force_activity
    \/ force_update
    \/ set_check_interval
    \/ set_movement_pattern

Next ==
    \/ start
    \/ stop
    \/ check_idle_and_act
    \/ tick_perform
    \/ tick_update
    \/ force_activity
    \/ force_update
    \/ config_set
    \/ advance

\* Every interleaving of the processes' steps.
GuardNext ==
    \E p \in Proc :
        \/ ensure_single_instance(p)
        \/ reader_exists(p)
        \/ reader_open(p)
        \/ reader_read(p)
        \/ reader_probe(p)
        \/ reader_unlink(p)
        \/ acquire_open(p)
        \/ acquire_flock(p)
        \/ acquire_write(p)
        \/ release_unlock(p)
        \/ release_close(p)
        \/ release_unlink(p)
        \/ release_idle(p)
        \/ crash(p)

\* Sequential calls: a process takes a step only while every other process
\* is between calls.
Alone(p) == \A q \in Proc \ {p} : Quiescent(q)

GuardNextSeq ==
    \E p \in Proc :
        \/ Alone(p) /\ ensure_single_instance(p)
        \/ Alone(p) /\ reader_exists(p)
        \/ Alone(p) /\ reader_open(p)
        \/ Alone(p) /\ reader_read(p)
        \/ Alone(p) /\ reader_probe(p)
        \/ Alone(p) /\ reader_unlink(p)
        \/ Alone(p) /\ acquire_open(p)
        \/ Alone(p) /\ acquire_flock(p)
        \/ Alone(p) /\ acquire_write(p)
        \/ Alone(p) /\ release_unlock(p)
        \/ Alone(p) /\ release_close(p)
        \/ Alone(p) /\ release_unlink(p)
        \/ Alone(p) /\ release_idle(p)
        \/ Alone(p) /\ crash(p)

Init == GuardInit /\ SchedInit /\ RegistryStart(FreshRegistry)

Spec == Init /\ [][Next]_vars

\* main() calls ensure_single_instance() before it builds the configuration
\* and the scheduler, so the guard's behaviours start from one configuration.
GuardOnlyInit ==
    /\ Init
    /\ config = [idle_threshold |-> 1, move_interval |-> 1,
                 check_interval |-> 1, movement_pattern |-> "random"]

MotionInit ==
    /\ GuardInit
    /\ SchedStart(MotionConfigDomain)
    /\ RegistryStart(FreshRegistry)

SpecCalls == GuardOnlyInit /\ [][CallsNext]_vars

SpecMotion == MotionInit /\ [][MotionNext]_vars

PointerInit ==
    /\ GuardInit
    /\ SchedStart(PointerConfigDomain)
    /\ RegistryStart(FreshRegistry)

\* The registry as any macros file left it; the scheduler is not started.
RegistryInit ==
    /\ GuardInit
    /\ SchedStart({[idle_threshold |-> 1, move_interval |-> 1,
                    check_interval |-> 1, movement_pattern |-> "random"]})
    /\ RegistryStart(LoadedRegistries)

SpecRegistry == RegistryInit /\ [][RegistryNext]_vars

\* The registry of a fresh installation: the defaults, whose names differ.
SpecRegistryFresh == GuardOnlyInit /\ [][RegistryNext]_vars

SpecPointer == PointerInit /\ [][PointerNext]_vars

SpecKeys == GuardOnlyInit /\ [][KeysNext]_vars

\* The configuration operations, from a first start without a file (the
\* defaults): load_config(), set(key, value) with any number for a numeric
\* key, reset_to_defaults(), and the scheduler started and stopped in
\* between.
ConfigInit ==
    /\ GuardInit
    /\ SchedStart({DefaultConfig})
    /\ RegistryStart(FreshRegistry)

SpecConfig ==
    /\ ConfigInit
    /\ [][\/ load_config
          \/ (LoopIdle /\ \E key \in NumericKeys :
                             \E value \in ConfigValues : set(key, value))
          \/ reset_to_defaults
          \/ start
          \/ stop]_vars

\* The scheduler once started and never stopped, with every sample idle
\* and the event loop punctual (under a threshold that is not a number no
\* sample compares and time stands still at the first timeout).  The Qt event loop
\* delivers a due timeout, runs a handler to its end and lets time pass:
\* weak fairness of each of these steps.
SpecLive ==
    /\ Init
    /\ [][start \/ idle_tick \/ tick_perform \/ tick_update \/ elapse]_vars
    /\ WF_vars(idle_tick)
    /\ WF_vars(tick_perform)
    /\ WF_vars(tick_update)
    /\ WF_vars(elapse)

\* Repeated moves of the linear pattern with nobody at the mouse.  The
\* running scheduler keeps performing sequences while the machine is idle:
\* weak fairness of the moves.
LinearInit ==
    /\ PointerInit
    /\ config.movement_pattern = "linear"

SpecLinear ==
    /\ LinearInit
    /\ [][linear_move]_vars
    /\ WF_vars(linear_move)

SpecGuard == GuardOnlyInit /\ [][GuardNext]_vars

SpecGuardSeq == GuardOnlyInit /\ [][GuardNextSeq]_vars

(***************************************************************************)
(* Claims about the Instance Guard                                         *)
(***************************************************************************)
\* C1: under every interleaving of the steps of ensure_single_instance,
\* release and crash, at most one live process at a time has had
\* ensure_single_instance() return True without having released since.
C1_AtMostOneHolder == Cardinality({p \in Proc : Holds(p)}) <= 1

\* C5: for sequential calls, ensure_single_instance() returns False exactly
\* when another process that it returned True to is alive and has not
\* released: the first call returns True, a call made while that process
\* lives returns False, and the next call after it ended (by release or by
\* crash) returns True.
C5_SequentialCalls ==
    \A p \in Proc :
        result[p] # "none" => ((result[p] = "false") <=> live_at_call[p])

\* A first process was let in and crashed without releasing, a second was
\* turned away while the first lived, and a third was let in after removing
\* the dead process's record.
C5_Witness ==
    \E p, q, r \in Proc :
        /\ result[p] = "true" /\ pc[p] = "dead"
        /\ result[q] = "false" /\ live_at_call[q]
        /\ result[r] = "true" /\ via_stale[r] /\ ~live_at_call[r]


(***************************************************************************)
(* Claims about the Activity Scheduler                                     *)
(***************************************************************************)
Injections == {"inject:mouse", "inject:scroll", "inject:key"}

\* C2: a tick handled while Running whose sampled idle time is below the
\* idle threshold does not invoke the activity sequence, injects nothing and
\* leaves _last_move_time as it was, whatever now - _last_move_time is.
C2_BelowThresholdNoAction ==
    [][(/\ is_enabled
        /\ h'.idle # NotSampled
        /\ config.idle_threshold # NotANumber
        /\ h'.idle < config.idle_threshold
        /\ check_idle_and_act)
       => /\ tick_pc' = "idle"
          /\ ~h'.due
          /\ h'.seqs = 0
          /\ \A i \in DOMAIN events' : events'[i] \notin Injections
          /\ last_move_time' = last_move_time]_vars

\* Such a tick happened although the rate limit alone would have let it act.
C2_Witness ==
    /\ h.kind = "tick" /\ is_enabled /\ tick_pc = "idle"
    /\ h.idle # NotSampled
    /\ config.idle_threshold # NotANumber
    /\ h.idle < config.idle_threshold
    /\ now - last_move_time >= config.move_interval
    /\ events = <<"status:idle">>

\* C3: a tick handled while Running with idle time >= idle threshold and
\* now - _last_move_time >= move_interval runs exactly one activity sequence,
\* and when it ends _last_move_time is the time the tick read before the
\* sequence (not the time at which the sequence ended).
C3_DueTickActsOnce ==
    [][/\ (/\ is_enabled
           /\ h'.idle # NotSampled
           /\ config.idle_threshold # NotANumber
           /\ h'.idle >= config.idle_threshold
           /\ now - last_move_time >= config.move_interval
           /\ check_idle_and_act)
          => (tick_pc' = "act" /\ h'.due /\ h'.seqs = 0 /\ current_time' = now)
       /\ (tick_pc = "act" /\ tick_pc' # "act")
          => (tick_pc' = "update" /\ h'.seqs = 1 /\ current_time' = current_time)
       /\ (tick_pc = "act" /\ tick_pc' = "act")
          => (h' = h /\ current_time' = current_time)
       /\ (tick_pc = "update" /\ tick_pc' = "update")
          => (h' = h /\ current_time' = current_time)
       /\ (tick_pc = "update" /\ tick_pc' # "update")
          => (tick_pc' = "idle" /\ h'.seqs = 1
              /\ last_move_time' = current_time)]_vars

\* A due tick has just ended; its sequence took time, so the timestamp it
\* wrote is older than the clock.
C3_Witness ==
    /\ h.kind = "tick" /\ h.due /\ h.seqs = 1 /\ tick_pc = "idle"
    /\ is_enabled
    /\ last_move_time < now
    /\ last_activity_time = now

\* C4: a timer-triggered activity sequence starts only when at least
\* move_interval (as configured at that tick) has passed since the time held
\* in _last_move_time, and only the update of a due tick (the time that tick
\* read) and of force_activity (the time after its sequence) change
\* _last_move_time: start(), stop() and configuration changes never do.
C4_RateLimit ==
    [][/\ (tick_pc # "act" /\ tick_pc' = "act")
          => now - last_move_time >= config.move_interval
       /\ last_move_time' # last_move_time
          => \/ tick_update /\ last_move_time' = current_time
             \/ force_update /\ last_move_time' = now]_vars

\* A timer-triggered sequence starts after an earlier update of
\* _last_move_time, one full move_interval later.
C4_Witness ==
    /\ tick_pc = "act"
    /\ last_move_time >= Epoch
    /\ current_time - last_move_time >= config.move_interval

\* C6: start() on a Running scheduler leaves it Running, leaves the tick
\* timer active without restarting it or changing its period, and emits no
\* event.
C6_StartIdempotent ==
    [][(is_enabled /\ h'.kind = "start" /\ start)
       => /\ is_enabled'
          /\ timer_active /\ timer_active'
          /\ timer_interval' = timer_interval
          /\ timer_left' = timer_left
          /\ events' = <<>>]_vars

\* start() was called on a Running scheduler whose timer was partway
\* through its period.
C6_Witness ==
    /\ h.kind = "start" /\ events = <<>>
    /\ is_enabled /\ timer_active
    /\ timer_left < timer_interval \div MsPerSecond

\* C7: while Stopped the timer is inactive and no tick is in progress; a tick
\* handler invoked while Stopped (a late timeout) does not sample the sensor,
\* runs no sequence, emits nothing and changes no timestamp; and stop() on a
\* Stopped scheduler changes nothing and emits no event.
C7_StoppedIsQuiet ==
    [][/\ ~is_enabled' => (~timer_active' /\ tick_pc' = "idle")
       /\ (~is_enabled /\ h'.kind = "tick" /\ check_idle_and_act)
          => /\ h'.idle = NotSampled /\ h'.seqs = 0 /\ ~h'.due
             /\ tick_pc' = "idle"
             /\ events' = <<>>
             /\ UNCHANGED <<is_enabled, last_move_time, last_activity_time,
                            timer_active, timer_interval>>
       /\ (~is_enabled /\ h'.kind = "stop" /\ stop)
          => /\ events' = <<>>
             /\ UNCHANGED <<is_enabled, last_move_time, last_activity_time,
                            timer_active, timer_interval, timer_left, late,
                            config, tick_pc, force_pc>>]_vars

\* A timeout that was due before stop() was delivered after it.
C7_Witness ==
    /\ h.kind = "tick" /\ ~is_enabled /\ ~late /\ events = <<>>

\* C8: force_activity() on a Running scheduler runs one activity sequence at
\* once, whatever the idle time and the time since the last action, then
\* sets _last_move_time and the sensor baseline to the time after the
\* sequence; on a Stopped scheduler it injects and emits nothing and changes
\* neither timestamp nor the state.
C8_ForceOnlyWhenRunning ==
    [][/\ (is_enabled /\ h'.kind = "force" /\ force_activity)
          => (h'.seqs = 1 /\ force_pc' = "update")
       /\ (force_pc = "update" /\ force_pc' = "update") => h' = h
       /\ (force_pc = "update" /\ force_pc' # "update")
          => /\ force_pc' = "idle" /\ h'.seqs = 1
             /\ last_move_time' = now
             /\ last_activity_time' = now
       /\ (~is_enabled /\ h'.kind = "force" /\ force_activity)
          => /\ h'.seqs = 0 /\ force_pc' = "idle"
             /\ events' = <<>>
             /\ UNCHANGED <<is_enabled, last_move_time, last_activity_time,
                            timer_active>>]_vars

\* A forced sequence has just ended on a Running scheduler, less than
\* move_interval after the previous action.
C8_Witness ==
    /\ h.kind = "force" /\ h.seqs = 1 /\ force_pc = "idle"
    /\ is_enabled
    /\ last_move_time = now /\ last_activity_time = now
    /\ now > Epoch

\* C9: from a tick's due decision to its write of _last_move_time, and from
\* the sequence of force_activity() to its write, the only steps are the
\* handler's own and the passage of time: no other tick, force_activity(),
\* start(), stop() or configuration change runs in between, and a tick and a
\* force_activity() are never both in that section.
C9_HandlersAtomic ==
    [][/\ tick_pc # "idle" => (advance \/ tick_perform \/ tick_update)
       /\ force_pc # "idle" => (advance \/ force_update)
       /\ ~(tick_pc' # "idle" /\ force_pc' # "idle")]_vars

\* A tick is between its sequence and its write of _last_move_time, and
\* time has passed since its decision.
C9_Witness ==
    /\ tick_pc = "update" /\ h.kind = "tick" /\ h.seqs = 1
    /\ now > current_time

\* C10: whenever something raised inside a tick or a force_activity() - the
\* sensor, the comparison with a configuration value, an injection - the
\* exception did not leave the handler, the scheduler is still Running and
\* its tick timer is still active.
C10_ExceptionsContained ==
    h.raised => /\ h.kind \in {"tick", "force"}
                /\ ~h.escaped
                /\ is_enabled
                /\ timer_active

\* A tick whose sequence had a failing injection has ended: the error line
\* and the status line were emitted and the scheduler is Running.
C10_Witness ==
    /\ h.kind = "tick" /\ h.raised /\ h.seqs = 1 /\ tick_pc = "idle"
    /\ \E i \in DOMAIN events : events[i] = "activity:error"
    /\ events[Len(events)] = "status:idle"
    /\ is_enabled /\ timer_active

\* C11: whenever an injection primitive failed during an activity sequence -
\* in the mouse step, the scroll step or the key press of the macro step -
\* the sequence emitted an activity_performed line that carries the text of
\* the error ("Error performing activity: ..." or "Error executing keyboard
\* macro: ...").
C11_InjectionFailureLogged ==
    (h.kind \in {"tick", "force"} /\ h.seqs = 1 /\ h.raised)
    => \E i \in DOMAIN events : events[i] = "activity:error"

\* C12: a failure of the mouse step or of the scroll step does not end the
\* sequence: every later step that is switched on and whose primitive works
\* still injects (scroll and macro after a failed mouse step, macro after a
\* failed scroll step).
C12_RemainingStepsRun ==
    call.fn = "perform_activity" =>
        LET t == call.t
            f == call.f
            ev == call.r.ev
            mouse_failed == t.mouse /\ f.mouse = "raise"
            scroll_failed == t.scroll /\ f.scroll = "raise"
        IN /\ (mouse_failed /\ t.scroll /\ f.scroll = "ok")
              => \E i \in DOMAIN ev : ev[i] = "inject:scroll"
           /\ ((mouse_failed \/ scroll_failed) /\ t.keyboard /\ f.macro = "ok")
              => \E i \in DOMAIN ev : ev[i] = "inject:key"

\* C13: a tick handled while Running has, when it ends, emitted exactly one
\* status event, and that event is the "Idle: ...s, Threshold: ...s" line
\* with the sampled idle time and the threshold, whether or not the sequence
\* ran in the tick.
C13_OneIdleStatusPerTick ==
    (h.kind = "tick" /\ is_enabled /\ tick_pc = "idle")
    => /\ Cardinality({i \in DOMAIN events : events[i] = "status:idle"}) = 1
       /\ \A i \in DOMAIN events :
            events[i] \notin {"status:error", "status:started", "status:stopped"}

\* C14: whenever the primary idle probe fails - non-zero exit status, timeout,
\* no HIDIdleTime line, unparsable value, or the command cannot be launched -
\* get_idle_time() raises nothing and returns now minus the fallback
\* baseline (the time of the last reset_idle_time(), or of construction).
C14_ProbeFailureFallsBack ==
    (call.fn = "get_idle_time" /\ call.primary # "value")
    => /\ call.r.exc = "none"
       /\ call.r.value = now - last_activity_time

\* C15: the sensor baseline (_last_activity_time) changes only in the update
\* that ends a sequence of a Running scheduler - a due tick's or
\* force_activity()'s - which sets it to the clock; between the sequence and
\* that reset no other handler runs, so no sample is taken; every other
\* step (a tick that is not due, a tick or force_activity() while Stopped,
\* start(), stop(), a configuration change) leaves it.
C15_BaselineResetAfterSequence ==
    [][/\ last_activity_time' # last_activity_time
          => /\ is_enabled /\ h.seqs = 1
             /\ \/ tick_pc = "update" /\ tick_update
                \/ force_pc = "update" /\ force_update
       /\ (tick_pc = "update" /\ tick_pc' # "update")
          => last_activity_time' = now
       /\ (force_pc = "update" /\ force_pc' # "update")
          => last_activity_time' = now
       /\ (tick_pc = "update" \/ force_pc = "update") => h' = h]_vars

\* A due tick has ended some seconds after construction: the baseline is
\* the clock of its end.
C15_Witness ==
    /\ h.kind = "tick" /\ h.seqs = 1 /\ tick_pc = "idle" /\ is_enabled
    /\ h.idle >= config.idle_threshold
    /\ now > Epoch
    /\ last_activity_time = now

C17_ConfigChangeFrame ==
    [][(h'.kind = "config" /\ events' = <<"config:changed">>)
       => /\ UNCHANGED <<is_enabled, last_move_time, last_activity_time,
                         movement_angle, linear_direction, timer_active>>
          /\ is_enabled
             => timer_interval' = config'.check_interval * MsPerSecond
          /\ ~is_enabled
             => /\ ~timer_active'
                /\ UNCHANGED <<timer_interval, timer_left>>]_vars

\* A change was notified to a Running scheduler whose accumulators and
\* timestamp had already moved from their initial values.
C17_Witness ==
    /\ h.kind = "config" /\ events = <<"config:changed">>
    /\ is_enabled
    /\ movement_angle > 0 /\ linear_direction # NoDirection
    /\ last_move_time >= Epoch
    /\ timer_interval = config.check_interval * MsPerSecond

\* C18: in every activity sequence the injections occur in the order mouse
\* movement, scroll, key macro, each at most once, and a step whose switch
\* is off (mouse_move_enabled, scroll_enabled, the macro manager's switch)
\* injects nothing.
C18_FixedOrderAndToggles ==
    call.fn = "perform_activity" =>
        LET t == call.t
            ev == call.r.ev
            rank(e) == IF e = "inject:mouse" THEN 1
                       ELSE IF e = "inject:scroll" THEN 2 ELSE 3
        IN /\ \A i, j \in DOMAIN ev :
                (i < j /\ ev[i] \in Injections /\ ev[j] \in Injections)
                => rank(ev[i]) < rank(ev[j])
           /\ ~t.mouse => \A i \in DOMAIN ev : ev[i] # "inject:mouse"
           /\ ~t.scroll => \A i \in DOMAIN ev : ev[i] # "inject:scroll"
           /\ ~t.keyboard => \A i \in DOMAIN ev : ev[i] # "inject:key"

\* A sequence with the scroll step switched off moved the mouse and then
\* pressed a key.
C18_Witness ==
    /\ call.fn = "perform_activity"
    /\ call.t = [mouse |-> TRUE, scroll |-> FALSE, keyboard |-> TRUE]
    /\ call.r.ev = <<"inject:mouse", "activity:mouse",
                     "inject:key", "activity:macro">>

\* C19: a sequence that finds mouse movement, scroll and keyboard macros all
\* switched off injects nothing, and the handler goes on as after any
\* sequence: the due tick sets _last_move_time to the time it read and
\* force_activity() sets it to the clock, both reset the sensor baseline,
\* and no tick enters a sequence while less than move_interval has passed
\* since _last_move_time.
C19_NoopSequenceCounts ==
    [][/\ (h'.noop /\ h'.seqs = 1)
          => \A i \in DOMAIN events' : events'[i] \notin Injections
       /\ (tick_pc = "act" /\ tick_pc' # "act" /\ h'.noop)
          => tick_pc' = "update"
       /\ (tick_pc = "update" /\ tick_pc' # "update" /\ h.noop)
          => /\ last_move_time' = current_time
             /\ last_activity_time' = now
       /\ (is_enabled /\ force_pc = "idle" /\ h'.kind = "force" /\ h'.noop)
          => force_pc' = "update"
       /\ (force_pc = "update" /\ force_pc' # "update" /\ h.noop)
          => /\ last_move_time' = now
             /\ last_activity_time' = now
       /\ (tick_pc = "idle" /\ tick_pc' = "act")
          => now - last_move_time >= config.move_interval]_vars

\* A due tick whose sequence found everything switched off has ended: only
\* the status line was emitted and both timestamps were written.
C19_Witness ==
    /\ h.kind = "tick" /\ h.due /\ h.noop /\ h.seqs = 1
    /\ tick_pc = "idle" /\ is_enabled
    /\ events = <<"status:idle">>
    /\ last_move_time >= Epoch
    /\ last_activity_time = now

\* The angle after n consecutive invocations of _get_circular_position.
RECURSIVE circular_after(_, _)
circular_after(angle, n) ==
    IF n = 0 THEN angle ELSE circular_after(get_circular_angle(angle), n - 1)

\* C20: from every value the angle accumulator reaches, 32 consecutive
\* circular-pattern invocations (steps of 0.2 rad, wrap at 2 * pi) bring it
\* back to that value.
C20_CircularWrap == circular_after(movement_angle, 32) = movement_angle

\* The accumulator stands one step before its wrap, 31 invocations after
\* construction.
C20_Witness == movement_angle = 31 * AngleStep /\ config.movement_pattern = "circular"

(***************************************************************************)
(* Claims about the pointer steps                                          *)
(***************************************************************************)
\* C21: in the linear pattern, when current_x + d * sign would be within the
\* 10-pixel margin of either edge of the screen, the sign flips and the
\* offset is recomputed from the flipped sign; otherwise the sign is kept and
\* the offset is (d * sign, 0).  In particular at current_x =
\* screenWidth - 11 with d = 5 and sign +1 the sign becomes -1 and the
\* offset is negative.
C21_LinearFlipAtMargin ==
    call.fn = "get_linear_position" =>
        LET sign == IF call.direction = NoDirection THEN 1
                    ELSE call.direction
            ahead == call.x + call.distance * sign
            near == ahead <= EdgeMargin \/ ahead >= ScreenWidth - EdgeMargin
        IN /\ call.r.y = call.y
           /\ near => /\ call.r.direction = 0 - sign
                      /\ call.r.x = call.x + call.distance * (0 - sign)
           /\ ~near => /\ call.r.direction = sign
                       /\ call.r.x = ahead
           /\ (call.x = ScreenWidth - 11 /\ call.distance = 5 /\ sign = 1)
                 => call.r.direction = 0 - 1 /\ call.r.x - call.x < 0

C21_Witness ==
    /\ call.fn = "get_linear_position"
    /\ call.x = ScreenWidth - 11
    /\ call.distance = 5
    /\ call.direction = 1
    /\ call.r.direction = 0 - 1
    /\ linear_direction = 0 - 1

\* C22: whatever the movement pattern, the cursor position and the
\* configured distance, the destination handed to the mouse-move primitive
\* has 0 <= x <= screenWidth - 1 and 0 <= y <= screenHeight - 1.
C22_DestinationOnScreen ==
    call.fn = "move_mouse" =>
        /\ 0 <= call.to[1] /\ call.to[1] <= ScreenWidth - 1
        /\ 0 <= call.to[2] /\ call.to[2] <= ScreenHeight - 1

\* A circular move whose pattern position lies beyond the right and the top
\* edge of the screen.
C22_Witness ==
    /\ call.fn = "move_mouse"
    /\ config.movement_pattern = "circular"
    /\ call.clamped = <<TRUE, TRUE>>
    /\ call.to = <<ScreenWidth - 1, 0>>

\* C23: a scroll step issues exactly one scroll, on one axis, of the
\* configured amount a: up is +a vertical, down is -a vertical, left is -a
\* horizontal, right is +a horizontal, and the random pattern issues one of
\* these four.
C23_OneScrollOneAxis ==
    call.fn = "scroll_mouse" =>
        LET a == call.scroll_amount
            up == <<[axis |-> "v", clicks |-> a]>>
            down == <<[axis |-> "v", clicks |-> 0 - a]>>
            left == <<[axis |-> "h", clicks |-> 0 - a]>>
            right == <<[axis |-> "h", clicks |-> a]>>
        IN /\ Len(call.calls) = 1
           /\ call.scroll_pattern = "up" => call.calls = up
           /\ call.scroll_pattern = "down" => call.calls = down
           /\ call.scroll_pattern = "left" => call.calls = left
           /\ call.scroll_pattern = "right" => call.calls = right
           /\ call.scroll_pattern = "random"
                 => call.calls \in {up, down, left, right}

C23_Witness ==
    /\ call.fn = "scroll_mouse"
    /\ call.scroll_pattern = "random"
    /\ call.scroll_amount > 1
    /\ call.calls = <<[axis |-> "h", clicks |-> 0 - call.scroll_amount]>>


(***************************************************************************)
(* Claims about key tokens                                                 *)
(***************************************************************************)
\* A part of a key token that the validator is said to recognise: a single
\* printable character, a modifier name, a function key f1..f12 or a named
\* key.
Recognised(part) ==
    LET key == strip_lower(part)
    IN \/ key \in Characters
       \/ key \in valid_modifiers
       \/ key \in valid_function_keys
       \/ key \in valid_special_keys

\* C28: validate(token) is true for every token of one or more '+'-joined
\* parts each of which is a single printable character, a recognised
\* modifier name, a function key f1..f12 or a recognised named key; for
\* example validate("shift+cmd+ctrl+right") is true.
C28_RecognisedTokensValid ==
    (/\ call.fn = "validate_key_combination"
     /\ Len(call.key_combination) >= 1
     /\ \A i \in DOMAIN call.key_combination :
           Recognised(call.key_combination[i]))
    => call.r = TRUE

\* C29: validate(token) is false for every token with at least one part
\* that is not a single printable character, a recognised modifier, a
\* function key f1..f12 or a recognised named key, for a combination such
\* as "ctrl+bogus_key_xyz" and equally for a token of one part.
C29_UnrecognisedTokensInvalid ==
    (/\ call.fn = "validate_key_combination"
     /\ \/ call.key_combination = <<>>
        \/ \E i \in DOMAIN call.key_combination :
              ~Recognised(call.key_combination[i]))
    => call.r = FALSE


(***************************************************************************)
(* Claims about the Macro Registry                                         *)
(***************************************************************************)
\* The calls that run a macro.
Executions == {"execute_macro", "test_macro", "execute_random_macro"}

\* C24: execute_random_macro() returns false and injects nothing when the
\* registry's switch is off or no macro is enabled; otherwise the macro it
\* executes is one of the registry whose own enabled flag is true, whatever
\* add, update, remove and set_enabled made of the registry.
C24_RandomPicksEnabled ==
    call.fn = "execute_random_macro" =>
        IF ~enabled \/ \A i \in DOMAIN macros : ~macros[i].enabled
        THEN ~call.ran /\ ~call.r.ret /\ call.r.pressed = <<>>
        ELSE /\ call.ran
             /\ call.macro.enabled
             /\ \E i \in DOMAIN macros : macros[i] = call.macro

\* An enabled macro was executed while the registry held a disabled one.
C24_Witness ==
    /\ call.fn = "execute_random_macro"
    /\ call.ran
    /\ call.r.ret
    /\ \E i \in DOMAIN macros : ~macros[i].enabled /\ macros[i].keys # <<>>

\* C25: execute_macro on a macro whose enabled flag is false returns false,
\* injects no key, does not sleep and emits no macro_executed, called
\* directly, through test_macro or through execute_random_macro.
C25_DisabledMacroInert ==
    (call.fn \in Executions /\ call.ran /\ ~call.macro.enabled)
    => /\ ~call.r.ret
       /\ call.r.pressed = <<>>
       /\ ~call.r.slept
       /\ ~call.r.emitted

C25_Witness ==
    /\ call.fn = "test_macro"
    /\ ~call.macro.enabled
    /\ call.macro.keys # <<>>
    /\ ~call.r.ret

\* C26: an execute_macro that succeeds injects exactly one key token, one
\* press of a single key or one combination, and that token is one of the
\* macro's keys.
C26_OneTokenPerExecution ==
    (call.fn \in Executions /\ call.ran /\ call.r.ret)
    => /\ Len(call.r.pressed) = 1
       /\ \E i \in DOMAIN call.macro.keys :
             call.macro.keys[i] = call.r.pressed[1].token
       /\ call.r.pressed[1].fn =
             IF Len(call.r.pressed[1].token) > 1 THEN "hotkey" ELSE "press"

\* A macro of several keys was executed by one combination.
C26_Witness ==
    /\ call.fn = "execute_macro"
    /\ call.r.ret
    /\ Len(call.macro.keys) > 1
    /\ call.r.pressed[1].fn = "hotkey"
    /\ call.r.pressed[1].keys = <<"ctrl", "s">>

\* C27: when the key primitive fails inside execute_macro, the call returns
\* false, no exception leaves it, no macro_executed is emitted and the
\* registry's macros and switch are what they were.
C27_KeyFailureContained ==
    [][(call'.fn \in Executions /\ call'.ran /\ call'.r.raised)
       => /\ ~call'.r.ret
          /\ ~call'.r.escaped
          /\ ~call'.r.emitted
          /\ macros' = macros
          /\ enabled' = enabled]_vars

C27_Witness ==
    /\ call.fn = "execute_random_macro"
    /\ call.ran
    /\ call.r.raised
    /\ ~call.r.ret

\* A macro definition that is not valid: no name, no keys, or a key that
\* validate_key_combination rejects.
InvalidDefinition(macro) ==
    \/ macro.name = ""
    \/ macro.keys = <<>>
    \/ \E i \in DOMAIN macro.keys : ~validate_key_combination(macro.keys[i])

\* C30: an invalid macro definition offered to add_macro or update_macro is
\* rejected before any mutation: the registry's list is what it was before
\* the call.
C30_InvalidDefinitionRejected ==
    (call.fn \in {"add_macro", "update_macro"}
        /\ InvalidDefinition(call.macro))
    => ~call.changed


\* C31: macro names are unique in the registry: after any sequence of
\* add, update and remove operations, also an add of a name already
\* present and an update that renames a macro to another macro's name, no
\* two macros of the registry have the same name.
C31_NamesUnique ==
    \A i, j \in DOMAIN macros :
        macros[i].name = macros[j].name => i = j



(***************************************************************************)
(* C32..C35: the claim record of the Instance Guard                        *)
(***************************************************************************)
\* C32: from a successful acquire() until the holder releases or dies, the
\* claim record at the lock path exists and contains the holder's process id,
\* whatever acquire() or ensure_single_instance() attempts other processes
\* make in between (a failed acquire() changes neither holder nor record).
C32_HolderRecordKept ==
    \A p \in Proc :
        Holds(p) => lock_path # 0 /\ content[lock_path] = p


\* C33: is_running() returns True exactly when a claim record exists whose
\* recorded process id belongs to a live process; when the recorded process
\* is dead it removes that stale record and returns False; and under any
\* interleaving it never removes the record of a live holder.  A step of
\* is_running() is thus never an unlink of the record of a process that
\* holds the claim, and never answers True for a dead process or False for
\* a live one.
C33_ReaderSparesLiveHolder ==
    [][\A p \in Proc :
          /\ (/\ pc[p] = "unlink"
              /\ fn[p] = "is_running"
              /\ lock_path # 0
              /\ content[lock_path] # 0
              /\ Holds(content[lock_path]))
             => ~reader_unlink(p)
          /\ (/\ pc[p] = "probe"
              /\ fn[p] = "is_running"
              /\ reader_probe(p))
             => (fn'[p] = "get_running_pid" <=> Alive(pid[p]))
      ]_vars


\* C34: when ensure_single_instance() finds the claim held by a live process
\* (is_running() returned True, so the call continues with
\* get_running_pid() and returns False) it does not touch the lock: no step
\* of the rest of the call opens the lock file for writing, takes or drops
\* the file lock, or modifies or removes the claim record.  The steps
\* looked at are those taken while some process holds the claim.
C34_LiveBranchFrame ==
    [][\A p \in Proc :
          (/\ fn[p] = "get_running_pid"
           /\ \E q \in Proc : Holds(q)
           /\ pc[p] \in {"exists", "open", "read", "probe", "unlink"}
           /\ pc'[p] # pc[p]
           /\ pc'[p] # "dead")
          => UNCHANGED <<lock_path, content, flock, lock_file>>
      ]_vars


\* C35: release() is idempotent and safe without a prior acquisition: called
\* by a process that does not hold the claim (never acquired, acquire
\* failed, or already released) it raises nothing and leaves every other
\* process's file lock and the claim record in place.
C35_ReleaseWithoutClaim ==
    [][\A p \in Proc :
          (pc[p] \in {"new", "exited"} /\ release_idle(p))
          => /\ call'.raised = "none"
             /\ pc'[p] = pc[p]
             /\ UNCHANGED <<lock_path, content, flock, lock_file>>
      ]_vars

\* release() was called by a process whose ensure_single_instance() had
\* returned False, while another process holds the claim, the file lock and
\* the record at the lock path.
C35_Witness ==
    /\ call.fn = "release"
    /\ pc[call.p] = "exited"
    /\ result[call.p] = "false"
    /\ ~via_stale[call.p]
    /\ \E q \in Proc \ {call.p} :
          /\ Holds(q)
          /\ flock[lock_file[q]] = q
          /\ lock_path = lock_file[q]


\* C36: a process constructs the Activity Scheduler only after its own
\* ensure_single_instance() has returned True; when it returns False the
\* process constructs no scheduler and ends with a non-zero exit status; and
\* a process that did start has released the claim (file closed, file lock
\* dropped) once its event loop has ended and main() has returned.
C36_SchedulerOnlyForHolder ==
    \A p \in Proc :
        /\ scheduler[p] => result[p] = "true"
        /\ result[p] = "false"
           => /\ ~scheduler[p]
              /\ pc[p] = "exited"
              /\ exit_status[p] \notin {NoStatus, 0}
        /\ (scheduler[p] /\ pc[p] = "exited")
           => /\ lock_file[p] = 0
              /\ \A i \in Inode : flock[i] # p

\* One process was refused and has returned 1 without a scheduler, another
\* started and has ended its event loop, and a third is running.
C36_Witness ==
    \E p, q, r \in Proc :
        /\ result[p] = "false" /\ exit_status[p] = 1 /\ ~scheduler[p]
        /\ scheduler[q] /\ pc[q] = "exited" /\ exit_status[q] = 0
        /\ scheduler[r] /\ pc[r] = "running"


(***************************************************************************)
(* C37: the configuration the scheduler reads                              *)
(***************************************************************************)
\* C37: in every reachable state the values the scheduler reads satisfy
\* check_interval >= 1, idle_threshold in [3, 18000] and move_interval in
\* [5, 300], after any sequence of load_config, set and reset_to_defaults.
C37_ConfigInRange ==
    /\ config.check_interval >= 1
    /\ config.idle_threshold \in 3..18000
    /\ config.move_interval \in 5..300


(***************************************************************************)
(* C38: liveness of the scheduler                                          *)
(***************************************************************************)
\* C38: if the scheduler stays running, ticks keep firing every
\* check_interval seconds and every sample reports an idle time of at least
\* idle_threshold, then an activity sequence is performed no later than
\* move_interval + check_interval after the previous one, hence infinitely
\* often: every tick at which move_interval has passed since the last
\* timestamp goes on to the sequence, and from every state of the running
\* scheduler a tick that performs a sequence follows.
C38_SequencesKeepComing ==
    /\ [][(/\ is_enabled
           /\ now - last_move_time >= config.move_interval
           /\ idle_tick)
          => tick_pc' = "act"]_vars
    /\ (is_enabled /\ config.idle_threshold # NotANumber)
          ~> (h.kind = "tick" /\ h.seqs >= 1)

\* A sequence performed by a tick while the timestamp of the previous one is
\* not older than move_interval + check_interval.
C38_Witness ==
    /\ is_enabled
    /\ tick_pc = "update"
    /\ h.seqs = 1
    /\ last_move_time > 0
    /\ now - last_move_time >= config.move_interval
    /\ now - last_move_time < config.move_interval + config.check_interval


(***************************************************************************)
(* C39: the fallback clock of the idle sensor                              *)
(***************************************************************************)
\* C39: when the idle sensor answers from its fallback clock, the
\* reset_idle_time() performed after each activity sequence restarts the
\* measured idle time from zero, so a tick that goes on to a sequence on a
\* fallback sample does so at least max(idle_threshold, move_interval)
\* after the timestamp of the previous sequence, timer-triggered or forced
\* (a force_activity() thus postpones it by at least idle_threshold).
C39_FallbackSpacing ==
    [][(/\ tick_pc = "idle"
        /\ tick_pc' = "act"
        /\ h'.idle = fallback_idle)
       => now - last_move_time
             >= Max(config.idle_threshold, config.move_interval)
      ]_vars

\* A tick acts on a fallback sample exactly idle_threshold after the
\* previous sequence, with idle_threshold above move_interval.
C39_Witness ==
    /\ tick_pc = "act"
    /\ h.idle = current_time - last_activity_time
    /\ last_move_time >= Epoch
    /\ config.idle_threshold > config.move_interval
    /\ current_time - last_move_time = config.idle_threshold


(***************************************************************************)
(* C40: the linear pattern at the edge margin                              *)
(***************************************************************************)
\* A linear move has left the cursor strictly inside the margins which
\* line 249 tests (on a screen without room for the move between the
\* margins, any linear move has been made).
linear_got_inside ==
    /\ call.fn = "linear_move"
    /\ ScreenWidth > 2 * call.distance + 2 * EdgeMargin
          => /\ EdgeMargin < call.to[1]
             /\ call.to[1] < ScreenWidth - EdgeMargin

\* C40: in the linear pattern the cursor does not get trapped in the edge
\* margin: for screen_width > 2 * d + 20, a cursor x strictly between 10 and
\* screen_width - 10 is sent by every linear move to a destination x that is
\* again strictly between 10 and screen_width - 10, and from any start x in
\* [0, screen_width - 1] repeated linear moves eventually bring the cursor
\* strictly inside those margins.
C40_LinearLeavesMargin ==
    /\ []((/\ call.fn = "linear_move"
           /\ ScreenWidth > 2 * call.distance + 2 * EdgeMargin
           /\ EdgeMargin < call.x
           /\ call.x < ScreenWidth - EdgeMargin)
          => /\ EdgeMargin < call.to[1]
             /\ call.to[1] < ScreenWidth - EdgeMargin)
    /\ <>linear_got_inside

=============================================================================
